---- MODULE Spec2Model ----
(***************************************************************************)
(* Verification model of the creator scraper's orchestration core:         *)
(*   - creatorscraper/utils/rate_limiter.py  (token bucket RateLimiter)    *)
(*   - creatorscraper/run_scraper.py         (batch orchestrator)          *)
(*   - creatorscraper/sources/instagram.py, linkedin.py (scrape protocol)  *)
(*                                                                         *)
(* Time is counted in integer ticks.  The refill rate is the rational      *)
(* RateNum / RateDen tokens per tick and every token balance is stored     *)
(* multiplied by RateDen, so that the arithmetic of the float balance is   *)
(* exact:  tokens + elapsed * rate  becomes  tokens + elapsed * RateNum.   *)
(***************************************************************************)
EXTENDS Integers, Sequences, FiniteSets, TLC

\* ------------------------------------------------------------------ bounds
Capacity   == 1      \* RateLimiter.capacity of the limiter under test
RateNum    == 1      \* rate = RateNum / RateDen tokens per tick
RateDen    == 2
NumCallers == 2      \* concurrent tasks sharing the limiter
MaxCalls   == 2      \* acquire / wait_for_tokens calls issued in a run
MaxTime    == 2      \* the clock is advanced freely up to this tick

Callers == 1..NumCallers
MaxN    == Capacity + 1          \* requests range over 1..MaxN
NoAcq   == [n |-> 0, pre |-> 0, lu |-> 0, t |-> 0, ok |-> FALSE]  \* no acquire yet

Min(a, b) == IF a <= b THEN a ELSE b

VARIABLES
    \* ---- RateLimiter (rate_limiter.py:11-66)
    now,          \* time.time()
    tokens,       \* self.tokens * RateDen
    last_update,  \* self.last_update
    lock,         \* self._lock.locked()
    active,       \* the tasks that use the limiter in this run
    pc,           \* per task: "idle", "start", "locked", "sleeping", "returned"
    op,           \* per task: "acquire" or "wait" (wait_for_tokens)
    req,          \* per task: the argument `tokens` of the call in progress
    calls,        \* calls issued so far by all tasks
    loc_now,      \* per task: local `now` of acquire
    loc_elapsed,  \* per task: local `elapsed` of acquire
    ret,          \* per task: value returned by its latest acquire
    wait_time,    \* per task: wait_time * RateNum of wait_for_tokens (line 64)
    sleep_start,  \* per task: tick at which asyncio.sleep was entered
    \* ---- history of the limiter, read only by the properties
    slept,        \* per task: the call in progress has slept at least once
    last_acq,     \* the latest completed acquire: inputs and result
    drain,        \* so far every completed acquire asked for 1 token at tick 0
    nAcq,         \* completed acquire calls, counted while drain holds
    nOk           \* those of them that returned True

rlVars == <<now, tokens, last_update, lock, active, pc, op, req, calls,
            loc_now, loc_elapsed, ret, wait_time, sleep_start,
            slept, last_acq, drain, nAcq, nOk>>

VARIABLES
    \* ---- inputs and configuration of one batch (run_scraper.py:22-32, 79)
    creators,        \* the list given to scrape_creators_batch
    use_api,         \* config.use_api
    access_token,    \* per scraper: an access token is configured
    max_concurrent,  \* config.max_concurrent
    \* ---- shared state
    limiters,        \* platform_rate_limiter.limiters: key -> tokens, last_update
    sem,             \* value of the asyncio.Semaphore of the batch
    browser,         \* per scraper: self.browser is set
    \* ---- one scrape unit per candidate
    upc,             \* position of the unit
    sub,             \* index of the API sub-call the unit is awaiting
    pend,            \* result computed by _scrape_via_playwright before `finally`
    usleep,          \* wait_time and start of the unit's rate-limiter sleep
    uresult,         \* what the unit's task finished with
    trace,           \* history of the unit, read only by the properties
    \* ---- the batch call and its caller
    bpc,             \* "idle", "gather", "returned", "raised", "counted"
    processed_results,
    successful,
    failed

bVars == <<creators, use_api, access_token, max_concurrent, limiters, sem,
           browser, upc, sub, pend, usleep, uresult, trace,
           bpc, processed_results, successful, failed>>

rlOnly == <<tokens, last_update, lock, active, pc, op, req, calls,
            loc_now, loc_elapsed, ret, wait_time, sleep_start,
            slept, last_acq, drain, nAcq, nOk>>

VARIABLES
    \* ---- PlatformRateLimiter as a registry (rate_limiter.py:69-125)
    created,         \* RateLimiter objects constructed so far
    lookups,         \* get_limiter calls made so far
    acquires,        \* acquire calls made on looked-up limiters
    got              \* key and identity of the limiter get_limiter returned
                     \* last, and the (platform, method) it was called with

regVars == <<created, lookups, acquires, got>>

VARIABLES
    \* ---- construction of one CreatorProfile (schemas.py:40-111)
    scraped,         \* what a path hands to its _create_profile_from_*
    profile          \* the CreatorProfile built from it, or that it raised

engVars == <<scraped, profile>>

VARIABLES
    \* ---- one discovery run (instagram_discovery.py:34-148)
    args,            \* the arguments of discover_creators
    dpc,             \* "idle", "loop", "throttle", "scroll", "for", "reload",
                     \* "handler", "closing", "returned"
    dcreators,       \* the local list `creators` of _discover_from_reels
    discovered_creators,  \* self.discovered_creators, the handles seen
    start_time,
    last_scroll_time,
    items,           \* entries of new_creators the for loop has not reached yet
    dresult,         \* what discover_creators handed to its caller
    dtrace           \* history of the run, read only by the properties

discVars == <<args, dpc, dcreators, discovered_creators, start_time,
              last_scroll_time, items, dresult, dtrace>>

VARIABLES
    \* ---- one list of candidates submitted three ways: to
    \* scrape_creators_batch (run_scraper.py:79-113), as one whole-list job
    \* (worker.py:135-198) and one job per candidate (worker.py:18-64)
    jobs,            \* the list `creators`, with what the outside world
                     \* answers for each candidate
    jpc,             \* "idle", "gather", "returned", "counted", "loop", "done"
    jsem,            \* value of the semaphore of scrape_creators_batch
    tpc,             \* per task of the gather: "created", "running", "done"
    tout,            \* per task: what it finished with
    jorder,          \* the tasks in the order in which they finished
    jresults,        \* the list scrape_creators_batch returns
    jcounts,         \* successful and failed as main counts them
    wresults,        \* results['results'] of process_creator_batch
    wcounts          \* total_creators, successful, failed, success of it

jobVars == <<jobs, jpc, jsem, tpc, tout, jorder, jresults, jcounts,
             wresults, wcounts>>

VARIABLES
    \* ---- cycles of the auto scraper (auto_scraper.py:219-260,
    \* simple_auto_scraper.py:216-250)
    cpc,             \* "idle", "discovered", "started"
    cycles,          \* cycles begun so far
    csv,             \* the handles in creators.csv
    cdiscovered,     \* the list discover_creators returned in this cycle
    new_creators,    \* the candidates save_creators_to_csv appended
    saved_count,     \* what save_creators_to_csv returned
    cstarted         \* the candidates handed to the scraping step

cycVars == <<cpc, cycles, csv, cdiscovered, new_creators, saved_count,
             cstarted>>

VARIABLES
    \* ---- one discover_by_hashtag call (instagram_discovery.py:309-428); it
    \* shares discovered_creators with discover_creators
    hpc,             \* "idle", "tags", "handles", "returned"
    htags,           \* entries of `hashtags` the for loop has not reached yet
    hlist,           \* entries of creator_handles[:max_creators] not reached yet
    hcreators,       \* the local list `creators` of discover_by_hashtag
    htrace           \* history of the call, read only by the properties

hashVars == <<hpc, htags, hlist, hcreators, htrace>>

\* the components added after the discovery run
addVars == <<jobVars, cycVars, hashVars>>

\* the state of the components added to the batch and the limiter under test
xVars == <<regVars, engVars, discVars, addVars>>

vars == <<rlVars, bVars, xVars>>

\* ------------------------------------------------ RateLimiter, pure parts

RefillUncapped(cap, tok, elapsed) == tok + elapsed * RateNum

RefillDoubleCap(cap, tok, elapsed) ==
    Min(2 * cap * RateDen, tok + elapsed * RateNum)

\* rate_limiter.py:45   min(self.capacity, self.tokens + elapsed * self.rate)
Refill(cap, tok, elapsed) == Min(cap * RateDen, tok + elapsed * RateNum)

SufficientStrict(tok, k) == tok > k * RateDen

\* rate_limiter.py:48   if self.tokens >= tokens
Sufficient(tok, k) == tok >= k * RateDen

WaitTimeSwapped(k, tok) == tok - k * RateDen

\* rate_limiter.py:64   (tokens - self.tokens) / self.rate, times RateNum
WaitTime(k, tok) == k * RateDen - tok

LockIgnored == TRUE

\* rate_limiter.py:40   async with self._lock: the lock can be taken
LockFree == ~lock

LoopOnce(ok) == FALSE

\* rate_limiter.py:63   while not await self.acquire(tokens)
LoopAgain(ok) == ~ok

\* rate_limiter.py:66   asyncio.sleep(wait_time) is over
SleepOver(c) == (now - sleep_start[c]) * RateNum >= wait_time[c]

\* ------------------------------------------------ RateLimiter, state

\* rate_limiter.py:14-28  RateLimiter.__init__: a full bucket, shared by
\* the tasks of the set a
InitLimiter(a) ==
    /\ now = 0
    /\ tokens = Capacity * RateDen
    /\ last_update = 0
    /\ lock = FALSE
    /\ active = a
    /\ pc = [c \in Callers |-> "idle"]
    /\ op = [c \in Callers |-> "acquire"]
    /\ req = [c \in Callers |-> 1]
    /\ calls = 0
    /\ loc_now = [c \in Callers |-> 0]
    /\ loc_elapsed = [c \in Callers |-> 0]
    /\ ret = [c \in Callers |-> "none"]
    /\ wait_time = [c \in Callers |-> 0]
    /\ sleep_start = [c \in Callers |-> 0]
    /\ slept = [c \in Callers |-> FALSE]
    /\ last_acq = NoAcq
    /\ drain = TRUE
    /\ nAcq = 0
    /\ nOk = 0

\* The clock advances.  Past MaxTime it advances only while a task sleeps in
\* a wait that the bucket can satisfy, which keeps the state space finite.
Tick ==
    /\ \/ now < MaxTime
       \/ \E c \in Callers : /\ pc[c] = "sleeping"
                             /\ req[c] <= Capacity
                             /\ ~SleepOver(c)
    /\ now' = now + 1
    /\ UNCHANGED <<tokens, last_update, lock, active, pc, op, req, calls,
                   loc_now, loc_elapsed, ret, wait_time, sleep_start,
                   slept, last_acq, drain, nAcq, nOk>>
    /\ UNCHANGED <<bVars, xVars>>

\* A task calls acquire(k) or wait_for_tokens(k).
Call(c, kind, k) ==
    /\ c \in active
    /\ pc[c] \in {"idle", "returned"}
    /\ calls < MaxCalls
    /\ pc' = [pc EXCEPT ![c] = "start"]
    /\ op' = [op EXCEPT ![c] = kind]
    /\ req' = [req EXCEPT ![c] = k]
    /\ calls' = calls + 1
    /\ ret' = [ret EXCEPT ![c] = "none"]
    /\ slept' = [slept EXCEPT ![c] = FALSE]
    /\ UNCHANGED <<now, tokens, last_update, lock, active, loc_now,
                   loc_elapsed, wait_time, sleep_start,
                   last_acq, drain, nAcq, nOk>>
    /\ UNCHANGED <<bVars, xVars>>

\* rate_limiter.py:40-42  take the lock, read the clock, compute elapsed
Enter(c) ==
    /\ pc[c] = "start"
    /\ LockFree
    /\ lock' = TRUE
    /\ loc_now' = [loc_now EXCEPT ![c] = now]
    /\ loc_elapsed' = [loc_elapsed EXCEPT ![c] = now - last_update]
    /\ pc' = [pc EXCEPT ![c] = "locked"]
    /\ UNCHANGED <<now, tokens, last_update, active, op, req, calls, ret,
                   wait_time, sleep_start,
                   slept, last_acq, drain, nAcq, nOk>>
    /\ UNCHANGED <<bVars, xVars>>

\* rate_limiter.py:45-54  refill, stamp, test, take; the lock is released on
\* the way out.  In wait_for_tokens (63-66) the return of acquire, the read
\* of self.tokens on line 64 and the entry into asyncio.sleep run without a
\* suspension point in between, so they belong to this step.
Exit(c) ==
    /\ pc[c] = "locked"
    /\ LET refilled == Refill(Capacity, tokens, loc_elapsed[c])
           ok       == Sufficient(refilled, req[c])
           left     == IF ok THEN refilled - req[c] * RateDen ELSE refilled
       IN  /\ tokens' = left
           /\ last_update' = loc_now[c]
           /\ lock' = FALSE
           /\ ret' = [ret EXCEPT ![c] = IF ok THEN "True" ELSE "False"]
           /\ IF op[c] = "wait" /\ LoopAgain(ok)
                 THEN /\ wait_time' = [wait_time EXCEPT ![c] = WaitTime(req[c], left)]
                      /\ sleep_start' = [sleep_start EXCEPT ![c] = now]
                      /\ pc' = [pc EXCEPT ![c] = "sleeping"]
                      /\ slept' = [slept EXCEPT ![c] = TRUE]
                 ELSE /\ pc' = [pc EXCEPT ![c] = "returned"]
                      /\ UNCHANGED <<wait_time, sleep_start, slept>>
           /\ last_acq' = [n |-> req[c], pre |-> tokens, lu |-> last_update,
                           t |-> loc_now[c], ok |-> ok]
           /\ LET d == drain /\ req[c] = 1 /\ loc_now[c] = 0
              IN  /\ drain' = d
                  /\ nAcq' = IF d THEN nAcq + 1 ELSE 0
                  /\ nOk' = IF d THEN (IF ok THEN nOk + 1 ELSE nOk) ELSE 0
    /\ loc_now' = [loc_now EXCEPT ![c] = 0]
    /\ loc_elapsed' = [loc_elapsed EXCEPT ![c] = 0]
    /\ UNCHANGED <<now, active, op, req, calls>>
    /\ UNCHANGED <<bVars, xVars>>

\* rate_limiter.py:66 -> 63  the sleep is over, the loop calls acquire again
Wake(c) ==
    /\ pc[c] = "sleeping"
    /\ SleepOver(c)
    /\ pc' = [pc EXCEPT ![c] = "start"]
    /\ wait_time' = [wait_time EXCEPT ![c] = 0]
    /\ sleep_start' = [sleep_start EXCEPT ![c] = 0]
    /\ UNCHANGED <<now, tokens, last_update, lock, active, op, req, calls,
                   loc_now, loc_elapsed, ret, slept, last_acq, drain, nAcq, nOk>>
    /\ UNCHANGED <<bVars, xVars>>

CallerStep(c) ==
    \/ \E kind \in {"acquire", "wait"}, k \in 1..MaxN : Call(c, kind, k)
    \/ Enter(c)
    \/ Exit(c)
    \/ Wake(c)

NextRL ==
    \/ Tick
    \/ \E c \in Callers : CallerStep(c)

\* ================================================= batch orchestration
\* run_scraper.py (CreatorScraperOrchestrator), sources/instagram.py and
\* sources/linkedin.py (scrape_profile and its two paths).  Every platform
\* budget of PlatformRateLimiter._setup_default_limits is scaled down to
\* BudgetCapacity tokens refilled at RateNum / RateDen per tick.

NumCreators    == 2    \* candidates in the batch
MaxConcurrent  == 2    \* max_concurrent ranges over 1..MaxConcurrent
BudgetCapacity == 1    \* capacity of every platform budget

Sources == {"instagram", "linkedin"}
Units   == 1..NumCreators

\* A candidate record: its 'source' value and the shape of its 'profile_url'
\* (the platform whose URL pattern it matches); "MISSING" = the key is absent.
CreatorRecords ==
    << [source |-> "instagram", url |-> "instagram"],
       [source |-> "linkedin",  url |-> "linkedin"],
       [source |-> "instagram", url |-> "linkedin"],
       [source |-> "tiktok",    url |-> "instagram"],
       [source |-> "MISSING",   url |-> "instagram"],
       [source |-> "linkedin",  url |-> "MISSING"] >>

\* The candidate lists tried: the units are scheduled in every order, so a
\* list and its permutations give the same behaviours up to the numbering of
\* the units, and one list per multiset of records is enough.
CreatorLists ==
    { [u \in Units |-> CreatorRecords[ix[u]]] :
        ix \in { f \in [Units -> 1..Len(CreatorRecords)] :
                    \A u \in Units : u > 1 => f[u - 1] <= f[u] } }

\* schemas.py:131-138  ScrapingResult(success, method_used)
Res(s, m) == [kind |-> "result", success |-> s, method |-> m]
\* an exception object, as asyncio.gather(return_exceptions=True) returns it
Exc       == [kind |-> "exception", success |-> FALSE, method |-> "raised"]
Pending   == [kind |-> "pending", success |-> FALSE, method |-> "none"]

\* sub_failed: an API sub-call of the unit has failed
NoTrace == [api_acq |-> 0, pw_acq |-> 0, api_called |-> FALSE,
            sub_failed |-> FALSE, api_out |-> "none", pw_out |-> "none"]
NoSleep == [wait |-> 0, start |-> 0]

\* rate_limiter.py:117  key = f"{platform}_{method}"
Key(platform, method) == platform \o "_" \o method

\* rate_limiter.py:14-28  RateLimiter(rate, capacity, platform) constructed at
\* time t: a full bucket; rate = <<num, den>> tokens per tick, tokens is kept
\* multiplied by den; id tells the objects constructed for one key apart
RateLimiterObj(key, cap, rate, id, t) ==
    [platform |-> key, capacity |-> cap, rate |-> rate,
     tokens |-> cap * rate[2], last_update |-> t, id |-> id]

\* rate_limiter.py:76-104  the four budgets created at import
DefaultKeys == { Key(p, m) : p \in Sources, m \in {"api", "scraping"} }

ExtractHandleAny(source, url) == "handle"

\* instagram.py:440-450, linkedin.py:387-397  _extract_handle: a handle is
\* found only in a URL of the scraper's own platform
ExtractHandle(source, url) == IF url = source THEN "handle" ELSE "None"

\* instagram.py:91-109 (three sub-calls), linkedin.py:89-98 (two)
ApiCalls(source) ==
    IF source = "instagram" THEN <<"id", "profile", "media">>
                            ELSE <<"profile", "activity">>

\* instagram.py:167-186, linkedin.py:140-162  the last sub-call returns []
\* instead of None when it fails
FailsAttempt(source, i, out) == out = "nothing" /\ i < Len(ApiCalls(source))

ApiAlways(source) == use_api

\* instagram.py:65, linkedin.py:63  if use_api and self.access_token
ApiAvailable(source) == use_api /\ access_token[source]

ReturnsAnyApiResult(success) == TRUE

ReturnsNoApiResult(success) == FALSE

\* instagram.py:68-69, linkedin.py:66-67  if result.success: return result
ReturnsApiResult(success) == success

SemIgnored == TRUE

\* run_scraper.py:92  async with semaphore: a permit is free
SemAvailable == sem > 0

ExceptionsPropagate == FALSE

\* run_scraper.py:99  asyncio.gather(*tasks, return_exceptions=True)
ReturnExceptions == TRUE

ReleasedOnResult(r, semNow) == IF r.kind = "exception" THEN semNow ELSE semNow + 1

\* run_scraper.py:92  `async with semaphore` releases the permit when its body
\* is left, by a return or by an exception
Released(r, semNow) == semNow + 1

ScrapeProfileReraises == Exc

\* instagram.py:76-82, linkedin.py:74-80  the handler of scrape_profile turns
\* an exception that reaches it into a failure with method 'none'
ScrapeProfileExcept == Res(FALSE, "none")

DropExceptions(rs) == SelectSeq(rs, LAMBDA r : r.kind # "exception")

\* run_scraper.py:102-111  exceptions become failed results, in place
ProcessResults(rs) ==
    [i \in 1..Len(rs) |->
        IF rs[i].kind = "exception" THEN Res(FALSE, "none") ELSE rs[i]]

NoLimiter == [key |-> "none", id |-> 0, tokens |-> 0,
              pair |-> <<"none", "none">>]

\* the registry is not looked at
RegistryIdle ==
    /\ created = 0
    /\ lookups = 0
    /\ acquires = 0
    /\ got = NoLimiter

\* an absent engagement rate; a rate is the fraction <<num, den>>, den > 0
NoRate == <<0, 0>>

NoInput   == [path |-> "none", posts |-> <<>>, follower_count |-> 0]
NoProfile == [kind |-> "none", engagement_rate |-> NoRate,
              top_posts |-> <<>>, recent_posts_sample |-> <<>>]

\* no profile is being built
EngagementIdle ==
    /\ scraped = NoInput
    /\ profile = NoProfile

NoArgs == [max_creators |-> 0, niches |-> {}, min_followers |-> 0,
           max_followers |-> 0, scroll_duration |-> 0]

\* instagram_discovery.py:86  `return []`, and 82 `return creators`: a bare
\* list reaches the caller and nothing else does, so no error marker is set
Returned(list) == [creators |-> list, error_marker |-> FALSE]

\* last_item: what the for loop did with the candidate it reached last;
\* taken, scrolls: tokens the run took from the instagram/scraping budget and
\* scroll advances it made; navs: navigations of the loop since the last
\* token was taken (counted up to 2); page_open: the page of the run was
\* created and not closed
NoDTrace == [seen_before |-> {}, open_failed |-> FALSE, last_new |-> 0,
             new_in_step |-> FALSE, last_item |-> "none",
             taken |-> 0, scrolls |-> 0, navs |-> 0, page_open |-> FALSE]

\* no discovery run was started
DiscoveryIdle ==
    /\ args = NoArgs
    /\ dpc = "idle"
    /\ dcreators = <<>>
    /\ discovered_creators = {}
    /\ start_time = 0
    /\ last_scroll_time = 0
    /\ items = 0
    /\ dresult = Returned(<<>>)
    /\ dtrace = NoDTrace

\* no batch is running
\* what a list of candidates that was not submitted looks like
NoJob == [key |-> "ok", answer |-> "fail", close_raises |-> FALSE]
NoCounts == [total_creators |-> 0, successful |-> 0, failed |-> 0,
             success |-> TRUE]

JobsIdle ==
    /\ jobs = [u \in Units |-> NoJob]
    /\ jpc = "idle"
    /\ jsem = 0
    /\ tpc = [u \in Units |-> "created"]
    /\ tout = [u \in Units |-> Pending]
    /\ jorder = <<>>
    /\ jresults = <<>>
    /\ jcounts = NoCounts
    /\ wresults = <<>>
    /\ wcounts = NoCounts

\* emitted_before: the handles discover_creators emitted on this engine
\* before the call; seen_at_start: self.discovered_creators at the call;
\* tag_failed: a tag raised; after_failure: a tag was browsed after that;
\* passed_over: a handle the call had emitted came up again under a later tag
NoHTrace == [emitted_before |-> {}, seen_at_start |-> {},
             tag_failed |-> FALSE, after_failure |-> FALSE,
             passed_over |-> FALSE]

HashtagsIdle ==
    /\ hpc = "idle"
    /\ htags = 0
    /\ hlist = <<>>
    /\ hcreators = <<>>
    /\ htrace = NoHTrace

CycleIdle ==
    /\ cpc = "idle"
    /\ cycles = 0
    /\ csv = {}
    /\ cdiscovered = <<>>
    /\ new_creators = <<>>
    /\ saved_count = 0
    /\ cstarted = <<>>

NoBatch ==
    /\ sem = 0
    /\ browser = [s \in Sources |-> FALSE]
    /\ upc = [u \in Units |-> "none"]
    /\ sub = [u \in Units |-> 0]
    /\ pend = [u \in Units |-> Pending]
    /\ usleep = [u \in Units |-> NoSleep]
    /\ uresult = [u \in Units |-> Pending]
    /\ trace = [u \in Units |-> NoTrace]
    /\ bpc = "idle"
    /\ processed_results = <<>>
    /\ successful = 0
    /\ failed = 0

\* the state of the orchestrator and its scrapers with no batch running
BatchIdle ==
    /\ limiters = [k \in DefaultKeys |->
                      RateLimiterObj(k, BudgetCapacity, <<RateNum, RateDen>>, 0, 0)]
    /\ NoBatch

\* the limiter of SpecRL, untouched
LimiterIdle == InitLimiter({})

\* run_scraper.py:22-34  CreatorScraperOrchestrator.__init__, with the batch
\* it is about to be given
InitBatch ==
    /\ LimiterIdle
    /\ BatchIdle
    /\ creators \in CreatorLists
    /\ use_api \in BOOLEAN
    /\ access_token \in [Sources -> BOOLEAN]
    /\ max_concurrent \in 1..MaxConcurrent
    /\ RegistryIdle
    /\ EngagementIdle
    /\ DiscoveryIdle
    /\ JobsIdle /\ CycleIdle /\ HashtagsIdle

cfgVars == <<creators, use_api, access_token, max_concurrent>>

\* run_scraper.py:89-99  the semaphore is created and one task per candidate
\* is handed to gather
StartBatch ==
    /\ bpc = "idle"
    /\ bpc' = "gather"
    /\ sem' = max_concurrent
    /\ upc' = [u \in Units |-> "created"]
    /\ UNCHANGED <<now, rlOnly, xVars, cfgVars, limiters, browser, sub, pend,
                   usleep, uresult, trace, processed_results, successful,
                   failed>>

\* run_scraper.py:61-69, 92-93  scrape_profile has produced r: scrape_creator
\* hands a successful profile to the storage adapter (whose answer is only
\* logged) and returns r, the permit is released and the task is done.  An
\* exception leaves the task instead of a result.
Finish(u, r, semNow) ==
    /\ upc' = [upc EXCEPT ![u] = "done"]
    /\ sem' = Released(r, semNow)
    /\ IF r.kind = "exception" /\ ~ReturnExceptions
          THEN /\ bpc' = "raised"
               /\ UNCHANGED uresult
          ELSE /\ uresult' = [uresult EXCEPT ![u] = r]
               /\ UNCHANGED bpc

FirstPathUnthrottled(source) == IF ApiAvailable(source) THEN "api_call" ELSE "pw_newpage"

\* where scrape_profile goes once a handle was extracted
\* (instagram.py:64-73, linkedin.py:62-71)
FirstPath(source) == IF ApiAvailable(source) THEN "api_rl" ELSE "pw_rl"

\* run_scraper.py:92-93, 47-61; instagram.py:54-73  the task takes a permit
\* and runs up to its first suspension point: the two key lookups, the choice
\* of the scraper, the handle extraction and the choice of the path
UnitStart(u) ==
    /\ bpc \in {"gather", "raised"}
    /\ upc[u] = "created"
    /\ SemAvailable
    /\ LET c == creators[u]
       IN  IF c.source = "MISSING" \/ c.url = "MISSING"
              THEN Finish(u, Exc, sem - 1)                 \* KeyError
           ELSE IF c.source \notin Sources
              THEN Finish(u, Res(FALSE, "none"), sem - 1)  \* unsupported
           ELSE IF ExtractHandle(c.source, c.url) = "None"
              THEN Finish(u, Res(FALSE, "none"), sem - 1)  \* invalid URL
           ELSE /\ upc' = [upc EXCEPT ![u] = FirstPath(c.source)]
                /\ sem' = sem - 1
                /\ UNCHANGED <<uresult, bpc>>
    /\ UNCHANGED <<now, rlOnly, xVars, cfgVars, limiters, browser, sub, pend,
                   usleep, trace, processed_results, successful, failed>>

\* rate_limiter.py:127-137, 56-66, 30-54  wait_for_platform(source, method):
\* one acquire(1) on the budget of the key; on failure the task sleeps.
\* instagram.py:88-91 / 264-275: on success the API path issues its first
\* sub-call, the page path launches the browser if self.browser is unset.
LimiterAcquire(u) ==
    /\ upc[u] \in {"api_rl", "pw_rl"}
    /\ LET src      == creators[u].source
           api      == upc[u] = "api_rl"
           key      == Key(src, IF api THEN "api" ELSE "scraping")
           refilled == Refill(BudgetCapacity, limiters[key].tokens,
                              now - limiters[key].last_update)
           ok       == Sufficient(refilled, 1)
           left     == IF ok THEN refilled - RateDen ELSE refilled
       IN  /\ limiters' = [limiters EXCEPT ![key].tokens = left,
                                           ![key].last_update = now]
           /\ IF LoopAgain(ok)
                 THEN /\ upc' = [upc EXCEPT
                                   ![u] = IF api THEN "api_sleep" ELSE "pw_sleep"]
                      /\ usleep' = [usleep EXCEPT
                                   ![u] = [wait |-> WaitTime(1, left), start |-> now]]
                      /\ UNCHANGED <<sub, trace>>
                 ELSE /\ upc' = [upc EXCEPT
                                   ![u] = IF api THEN "api_call"
                                          ELSE IF browser[src] THEN "pw_newpage"
                                          ELSE "pw_launch"]
                      /\ sub' = [sub EXCEPT ![u] = IF api THEN 1 ELSE 0]
                      /\ trace' = [trace EXCEPT
                                   ![u] = IF api
                                          THEN [@ EXCEPT !.api_acq = @ + 1,
                                                         !.api_called = TRUE]
                                          ELSE [@ EXCEPT !.pw_acq = @ + 1]]
                      /\ UNCHANGED usleep
    /\ UNCHANGED <<now, rlOnly, xVars, cfgVars, sem, browser, pend, uresult,
                   bpc, processed_results, successful, failed>>

\* rate_limiter.py:66 -> 63  the sleep is over, acquire is tried again
LimiterWake(u) ==
    /\ upc[u] \in {"api_sleep", "pw_sleep"}
    /\ (now - usleep[u].start) * RateNum >= usleep[u].wait
    /\ upc' = [upc EXCEPT ![u] = IF upc[u] = "api_sleep" THEN "api_rl" ELSE "pw_rl"]
    /\ usleep' = [usleep EXCEPT ![u] = NoSleep]
    /\ UNCHANGED <<now, rlOnly, xVars, cfgVars, limiters, sem, browser, sub,
                   pend, uresult, trace, bpc, processed_results, successful,
                   failed>>

\* instagram.py:91-126, linkedin.py:89-115  the awaited API sub-call answers:
\* "data", "nothing" (the request failed and the helper's handler returned
\* None, or [] in the last one) or, for the last one, "bad_data" on which
\* _create_profile_from_api raises.  A failed attempt
\* falls through to the page path (instagram.py:68-73).
ApiAnswer(u, out) ==
    /\ upc[u] = "api_call"
    /\ LET src   == creators[u].source
           last  == sub[u] = Len(ApiCalls(src))
           fails == FailsAttempt(src, sub[u], out) \/ out = "bad_data"
       IN  /\ out = "bad_data" => last
           /\ IF ~fails /\ ~last
                 THEN \* the next sub-call is issued
                      /\ sub' = [sub EXCEPT ![u] = @ + 1]
                      /\ UNCHANGED <<upc, sem, uresult, bpc, trace>>
                 ELSE \* _scrape_via_api returns, with method 'api'
                      /\ sub' = [sub EXCEPT ![u] = 0]
                      /\ trace' = [trace EXCEPT
                            ![u].api_out = IF fails THEN "fail" ELSE "ok",
                            ![u].sub_failed = @ \/ out = "nothing"]
                      /\ IF ReturnsApiResult(~fails)
                            THEN Finish(u, Res(~fails, "api"), sem)
                            ELSE /\ upc' = [upc EXCEPT ![u] = "pw_rl"]
                                 /\ UNCHANGED <<sem, uresult, bpc>>
    /\ UNCHANGED <<now, rlOnly, xVars, cfgVars, limiters, browser, pend, usleep,
                   processed_results, successful, failed>>

\* instagram.py:267-272, 309-318  the browser launch ends; if it raised, the
\* except clause returns a failure and `finally` finds no page
Launch(u, ok) ==
    /\ upc[u] = "pw_launch"
    /\ IF ok
          THEN /\ browser' = [browser EXCEPT ![creators[u].source] = TRUE]
               /\ upc' = [upc EXCEPT ![u] = "pw_newpage"]
               /\ UNCHANGED <<sem, uresult, bpc, trace>>
          ELSE /\ Finish(u, Res(FALSE, "scraping"), sem)
               /\ trace' = [trace EXCEPT ![u].pw_out = "fail"]
               /\ UNCHANGED browser
    /\ UNCHANGED <<now, rlOnly, xVars, cfgVars, limiters, sub, pend, usleep,
                   processed_results, successful, failed>>

\* instagram.py:275, 309-318  browser.new_page() ends
NewPage(u, ok) ==
    /\ upc[u] = "pw_newpage"
    /\ IF ok
          THEN /\ upc' = [upc EXCEPT ![u] = "pw_page"]
               /\ UNCHANGED <<sem, uresult, bpc, trace>>
          ELSE /\ Finish(u, Res(FALSE, "scraping"), sem)
               /\ trace' = [trace EXCEPT ![u].pw_out = "fail"]
    /\ UNCHANGED <<now, rlOnly, xVars, cfgVars, limiters, browser, sub, pend, usleep,
                   processed_results, successful, failed>>

\* instagram.py:278-315  the awaits on the open page end: headers, viewport,
\* goto, the 3 s pause and _extract_profile_data.  "data": a profile is built;
\* "nothing": the extraction gave None or {}; "raises": one of the awaits or
\* _create_profile_from_scraping raised.  The result is kept until `finally`
\* has closed the page.
PageWork(u, out) ==
    /\ upc[u] = "pw_page"
    /\ upc' = [upc EXCEPT ![u] = "pw_close"]
    /\ pend' = [pend EXCEPT ![u] = Res(out = "data", "scraping")]
    /\ UNCHANGED <<now, rlOnly, xVars, cfgVars, limiters, sem, browser, sub,
                   usleep, uresult, trace, bpc, processed_results, successful,
                   failed>>

\* instagram.py:316-318, 74-82  `finally` closes the page and the kept result
\* is returned; if page.close() raises, the exception reaches the handler of
\* scrape_profile, which returns a failure with method 'none'
ClosePage(u, ok) ==
    /\ upc[u] = "pw_close"
    /\ LET r == IF ok THEN pend[u] ELSE ScrapeProfileExcept
       IN  /\ Finish(u, r, sem)
           /\ trace' = [trace EXCEPT
                          ![u].pw_out = IF ~ok THEN "raised"
                                        ELSE IF r.success THEN "ok" ELSE "fail"]
    /\ pend' = [pend EXCEPT ![u] = Pending]
    /\ UNCHANGED <<now, rlOnly, xVars, cfgVars, limiters, browser, sub, usleep,
                   processed_results, successful, failed>>

\* run_scraper.py:99-113  every task is done: gather returns the list in task
\* order and the exceptions in it are replaced by failed results
Collect ==
    /\ bpc = "gather"
    /\ \A u \in Units : upc[u] = "done"
    /\ processed_results' = ProcessResults([u \in Units |-> uresult[u]])
    /\ bpc' = "returned"
    /\ UNCHANGED <<now, rlOnly, xVars, cfgVars, limiters, sem, browser, upc,
                   sub, pend, usleep, uresult, trace, successful, failed>>

\* run_scraper.py:209-210  main counts the outcomes
Count ==
    /\ bpc = "returned"
    /\ LET ok == Cardinality({i \in 1..Len(processed_results) :
                                 processed_results[i].success})
       IN  /\ successful' = ok
           /\ failed' = Len(processed_results) - ok
    /\ bpc' = "counted"
    /\ UNCHANGED <<now, rlOnly, xVars, cfgVars, limiters, sem, browser, upc,
                   sub, pend, usleep, uresult, trace, processed_results>>

\* The clock advances while a unit sleeps in a limiter.
BatchTick ==
    /\ bpc \in {"gather", "raised"}
    /\ \E u \in Units :
          /\ upc[u] \in {"api_sleep", "pw_sleep"}
          /\ (now - usleep[u].start) * RateNum < usleep[u].wait
    /\ now' = now + 1
    /\ UNCHANGED <<rlOnly, xVars, bVars>>

UnitStep(u) ==
    \/ UnitStart(u)
    \/ LimiterAcquire(u)
    \/ LimiterWake(u)
    \/ \E out \in {"data", "nothing", "bad_data"} : ApiAnswer(u, out)
    \/ \E ok \in BOOLEAN : Launch(u, ok)
    \/ \E ok \in BOOLEAN : NewPage(u, ok)
    \/ \E out \in {"data", "nothing", "raises"} : PageWork(u, out)
    \/ \E ok \in BOOLEAN : ClosePage(u, ok)

NextBatch ==
    \/ StartBatch
    \/ \E u \in Units : UnitStep(u)
    \/ Collect
    \/ Count
    \/ BatchTick

\* ================================================= the limiter registry
\* rate_limiter.py:69-137 (PlatformRateLimiter) with the budgets of the source.

MaxLookups  == 2     \* get_limiter calls in a run
MaxAcquires == 2     \* acquire calls on looked-up limiters in a run

\* the names get_limiter is called with: the two sources and the two
\* methods of the scrapers, and a platform and a method that contain the
\* separator of the key
Platforms == Sources \cup {"instagram_api"}
Methods   == {"api", "scraping", "api_scraping"}

\* rate_limiter.py:78-104  capacity and rate (per second) of the four budgets
DefaultLimits ==
    [k \in DefaultKeys |->
        IF k = "instagram_api" THEN <<200, <<200, 3600>>>>
        ELSE IF k = "instagram_scraping" THEN <<20, <<20, 3600>>>>
        ELSE IF k = "linkedin_api" THEN <<500, <<500, 86400>>>>
        ELSE <<10, <<10, 3600>>>>]

\* rate_limiter.py:120-124  the budget given to a key seen for the first time
UnknownLimit == <<10, <<10, 3600>>>>

KeyNeverPresent(key) == FALSE

\* rate_limiter.py:118  key in self.limiters
KeyPresent(key) == key \in DOMAIN limiters

\* rate_limiter.py:72-104  PlatformRateLimiter.__init__
InitRegistry ==
    /\ limiters = [k \in DefaultKeys |->
                      RateLimiterObj(k, DefaultLimits[k][1], DefaultLimits[k][2], 0, 0)]
    /\ created = 0
    /\ lookups = 0
    /\ acquires = 0
    /\ got = NoLimiter

regOther == <<rlOnly, engVars, discVars, addVars, cfgVars, sem, browser, upc, sub, pend, usleep, uresult,
              trace, bpc, processed_results, successful, failed>>

\* rate_limiter.py:106-125  get_limiter(platform, method)
GetLimiter(platform, method) ==
    /\ lookups < MaxLookups
    /\ lookups' = lookups + 1
    /\ LET key == Key(platform, method)
       IN  /\ IF KeyPresent(key)
                 THEN UNCHANGED <<limiters, created>>
                 ELSE /\ limiters' =
                           [k \in DOMAIN limiters \cup {key} |->
                               IF k = key
                                  THEN RateLimiterObj(key, UnknownLimit[1],
                                           UnknownLimit[2], created + 1, now)
                                  ELSE limiters[k]]
                      /\ created' = created + 1
           /\ got' = [key |-> key, id |-> limiters'[key].id,
                      tokens |-> limiters'[key].tokens,
                      pair |-> <<platform, method>>]
    /\ UNCHANGED <<now, acquires, regOther>>

\* rate_limiter.py:41-54  acquire(k) on the limiter that was looked up last
AcquireGot(k) ==
    /\ got # NoLimiter
    /\ acquires < MaxAcquires
    /\ acquires' = acquires + 1
    /\ LET l        == limiters[got.key]
           den      == l.rate[2]
           refilled == Min(l.capacity * den,
                           l.tokens + (now - l.last_update) * l.rate[1])
           left     == IF refilled >= k * den THEN refilled - k * den
                                             ELSE refilled
       IN  limiters' = [limiters EXCEPT ![got.key].tokens = left,
                                        ![got.key].last_update = now]
    /\ UNCHANGED <<now, created, lookups, got, regOther>>

\* a second passes
RegistryTick ==
    /\ now < MaxTime
    /\ now' = now + 1
    /\ UNCHANGED <<limiters, regVars, regOther>>

NextRegistry ==
    \/ \E p \in Platforms, m \in Methods : GetLimiter(p, m)
    \/ \E k \in {1, 10} : AcquireGot(k)
    \/ RegistryTick

\* ================================================= profile construction
\* schemas.py:14-111 (Post, CreatorProfile) and the _create_profile_from_*
\* methods of sources/instagram.py and sources/linkedin.py.

MaxPosts     == 2    \* posts handed over by an API path
MaxLikes     == 2    \* likes and comments of a post range over -1..MaxLikes
MaxFollowers == 2    \* follower_count ranges over -1..MaxFollowers

Paths == {"instagram_api", "linkedin_api",
          "instagram_scraping", "linkedin_scraping"}

MaxStamp     == 1    \* timestamps of posts range over 0..MaxStamp

Timestamps == 0..MaxStamp

PostData == [likes : -1..MaxLikes, comments : -1..MaxLikes, timestamp : {0}]

\* posts with well-formed counts and any timestamp
StampedPostData == [likes : 0..MaxLikes, comments : {0}, timestamp : Timestamps]

PostLists == UNION { [1..n -> PostData] : n \in 0..MaxPosts }

Raised == [kind |-> "raised", engagement_rate |-> NoRate,
           top_posts |-> <<>>, recent_posts_sample |-> <<>>]

Built(r, top, recent) ==
    [kind |-> "profile", engagement_rate |-> r,
     top_posts |-> top, recent_posts_sample |-> recent]

\* min(1.0, num / den)
ClampOne(r) == IF r[1] >= r[2] THEN <<1, 1>> ELSE r

\* parsers.py:217-233  parse_engagement_rate
ParseEngagementRate(likes, comments, followers) ==
    IF followers <= 0 THEN NoRate
                      ELSE ClampOne(<<likes + comments, followers>>)

\* schemas.py:32-37, 84-89  validate_engagement_rate of Post and CreatorProfile
ValidEngagementRate(r) == r = NoRate \/ (0 <= r[1] /\ r[1] <= r[2])

RECURSIVE TotalEngagement(_)
\* instagram.py:238  sum((post.likes or 0) + (post.comments or 0) ...)
TotalEngagement(posts) ==
    IF posts = <<>> THEN 0
    ELSE posts[1].likes + posts[1].comments + TotalEngagement(Tail(posts))

OverallRateUnclamped(posts, follower_count) ==
    IF Len(posts) > 0 /\ follower_count > 0
       THEN <<TotalEngagement(posts), follower_count * Len(posts)>>
       ELSE NoRate

\* instagram.py:236-241  the overall engagement rate of the API path
OverallRate(posts, follower_count) ==
    IF Len(posts) > 0 /\ follower_count > 0
       THEN ClampOne(<<TotalEngagement(posts), follower_count * Len(posts)>>)
       ELSE NoRate

\* list.sort(key = ..., reverse = True) and sorted(..., reverse = True): a
\* stable sort, entries with equal keys keep the order they had in s.
\* Above(a, b): the key of a is greater than the key of b.
StableSortDesc(s, Above(_, _)) ==
    LET rank(i) == 1 + Cardinality({ j \in 1..Len(s) :
                        \/ Above(s[j], s[i])
                        \/ (~Above(s[i], s[j]) /\ j < i) })
    IN  [p \in 1..Len(s) |-> s[CHOOSE i \in 1..Len(s) : rank(i) = p]]

\* instagram.py:224  key = x.engagement_rate or 0, a rate being num / den
RateKey(r) == IF r = NoRate THEN <<0, 1>> ELSE r
RateAbove(a, b) ==
    RateKey(a.engagement_rate)[1] * RateKey(b.engagement_rate)[2]
        > RateKey(b.engagement_rate)[1] * RateKey(a.engagement_rate)[2]

\* linkedin.py:204  key = (x.likes or 0) + (x.comments or 0)
EngagementAbove(a, b) == a.likes + a.comments > b.likes + b.comments

\* instagram.py:230, linkedin.py:210  key = x.timestamp or datetime.min
StampAbove(a, b) == a.timestamp > b.timestamp

\* instagram.py:208-220, linkedin.py:192-201  the Post objects in the order
\* of extraction; pos tells them apart (their url)
InstagramPosts(posts, fc) ==
    [i \in 1..Len(posts) |->
        [likes |-> posts[i].likes, comments |-> posts[i].comments,
         timestamp |-> posts[i].timestamp, pos |-> i,
         engagement_rate |->
             ParseEngagementRate(posts[i].likes, posts[i].comments, fc)]]

LinkedInPosts(posts) ==
    [i \in 1..Len(posts) |->
        [likes |-> posts[i].likes, comments |-> posts[i].comments,
         timestamp |-> posts[i].timestamp, pos |-> i,
         engagement_rate |-> NoRate]]

\* instagram.py:227, linkedin.py:207  top_posts = posts[:3]
TopPosts(posts) == SubSeq(posts, 1, Min(3, Len(posts)))

\* instagram.py:230, linkedin.py:210  sorted(posts, ...)[:5], posts being
\* the list that was sorted by engagement before
RecentPosts(posts) ==
    SubSeq(StableSortDesc(posts, StampAbove), 1, Min(5, Len(posts)))

\* schemas.py:84-111  CreatorProfile(engagement_rate = r, top_posts = top,
\* recent_posts_sample = recent, follower_count = fc): the field validators
\* reject a rate outside [0, 1] and a list of more than 10 posts;
\* the root validator, when no rate was given and top_posts is not empty,
\* calls post.get(...) on the first Post object, which has no such method,
\* so the construction raises; with no posts the rate stays absent.
CreatorProfile(r, top, recent, fc) ==
    IF ~ValidEngagementRate(r) THEN Raised
    ELSE IF Len(top) > 10 \/ Len(recent) > 10 THEN Raised
    ELSE IF r = NoRate /\ top # <<>> THEN Raised
    ELSE Built(r, top, recent)

\* instagram.py:206-258  _create_profile_from_api: every Post gets its own
\* rate, which Post validates; the posts are sorted by that rate, the first
\* three are the top posts and the five latest of the sorted list the
\* recent ones; then the profile gets the overall rate
InstagramFromApi(posts, fc) ==
    IF \E i \in 1..Len(posts) :
          ~ValidEngagementRate(
              ParseEngagementRate(posts[i].likes, posts[i].comments, fc))
       THEN Raised
       ELSE LET sorted == StableSortDesc(InstagramPosts(posts, fc), RateAbove)
            IN  CreatorProfile(OverallRate(posts, fc), TopPosts(sorted),
                               RecentPosts(sorted), fc)

\* linkedin.py:190-230  _create_profile_from_api: no rate is passed
LinkedInFromApi(posts, fc) ==
    LET sorted == StableSortDesc(LinkedInPosts(posts), EngagementAbove)
    IN  CreatorProfile(NoRate, TopPosts(sorted), RecentPosts(sorted), fc)

\* instagram.py:412-438, linkedin.py:357-385  _create_profile_from_scraping:
\* neither posts nor a rate are passed
FromScraping(fc) == CreatorProfile(NoRate, <<>>, <<>>, fc)

\* the data a path has collected for one account
InitEngagement ==
    /\ scraped \in { x \in [path : Paths, posts : PostLists,
                            follower_count : -1..MaxFollowers] :
                        x.path \in {"instagram_scraping", "linkedin_scraping"}
                            => x.posts = <<>> }
    /\ profile = NoProfile

engOther == <<now, rlOnly, regVars, discVars, addVars, bVars>>

\* the path builds the profile
CreateProfile ==
    /\ profile = NoProfile
    /\ scraped # NoInput
    /\ profile' =
          IF scraped.path = "instagram_api"
             THEN InstagramFromApi(scraped.posts, scraped.follower_count)
          ELSE IF scraped.path = "linkedin_api"
             THEN LinkedInFromApi(scraped.posts, scraped.follower_count)
          ELSE FromScraping(scraped.follower_count)
    /\ UNCHANGED <<scraped, engOther>>

NextEngagement == CreateProfile

\* the data an API path has collected for an account with followers: posts
\* with well-formed counts and timestamps
InitPosts ==
    /\ scraped \in [path : {"instagram_api", "linkedin_api"},
                    posts : UNION { [1..n -> StampedPostData] : n \in 0..MaxPosts },
                    follower_count : 1..MaxFollowers]
    /\ profile = NoProfile

\* ================================================= discovery
\* sources/instagram_discovery.py: discover_creators (34-86) and
\* _discover_from_reels (88-148).  Time is in seconds.  The throttle
\* wait_for_platform('instagram', 'scraping') of every step never raises and
\* only delays the step, so it is part of the time the step takes.

MaxCreators == 2     \* max_creators ranges over 1..MaxCreators
MaxBatch    == 2     \* candidates one extraction yields at most
NumHandles  == 2     \* distinct handles on the feed

StallThreshold == 30 \* instagram_discovery.py:135
ErrorPause     == 5  \* instagram_discovery.py:138, 145  wait_for_timeout(5000)

Handles        == 1..NumHandles
FollowerCounts == 0..2
Niches         == {"Fitness", "Tech"}
Durations      == {20, 40}     \* time one scroll and extraction may take

\* instagram_discovery.py:104, 135  (datetime.now() - t).seconds: the seconds
\* field of a timedelta, which is what is left of it after whole days
SecondsPerDay == 86400
Seconds(delta) == delta % SecondsPerDay

HalfDay == SecondsPerDay \div 2
MaxHalfDays == 3     \* no scroll is begun later than this many half days

\* the time a step may take: in a run of a day or more only steps of half a
\* day are followed
StepDurations(scroll_duration) ==
    IF scroll_duration < SecondsPerDay THEN Durations ELSE {HalfDay}

\* instagram_discovery.py:176-180, 270-277  an extracted candidate
Candidates == [handle : Handles, follower_count : FollowerCounts,
               niche : Niches]

PassesFiltersNoMax(creator, niches, min_followers, max_followers) ==
    /\ ~(creator.follower_count < min_followers)
    /\ ~(niches # {} /\ creator.niche \notin niches)

\* instagram_discovery.py:285-307  _passes_filters
PassesFilters(creator, niches, min_followers, max_followers) ==
    /\ ~(creator.follower_count < min_followers
           \/ creator.follower_count > max_followers)
    /\ ~(niches # {} /\ creator.niche \notin niches)

SeenNever(handle) == FALSE

\* instagram_discovery.py:121  creator['handle'] in self.discovered_creators
Seen(handle) == handle \in discovered_creators

RoomAlways(list, max_creators) == TRUE

\* instagram_discovery.py:117  if len(creators) >= max_creators: break
RoomLeft(list, max_creators) == ~(Len(list) >= max_creators)

\* instagram_discovery.py:104  the condition of the while loop
LoopCondition ==
    /\ Len(dcreators) < args.max_creators
    /\ Seconds(now - start_time) < args.scroll_duration

\* the arguments discover_creators is called with
DiscoveryArgs == [max_creators : 1..MaxCreators,
                  niches : {{}, {"Fitness"}},
                  min_followers : {1}, max_followers : {1},
                  scroll_duration : {60, SecondsPerDay}]

IterationEntryScroll == "scroll"

\* instagram_discovery.py:105-107  the first statement of an iteration is
\* the throttle
IterationEntry == "throttle"

\* instagram_discovery.py:26-41  a fresh discovery instance is given the
\* arguments of its first run
InitDiscovery ==
    /\ args \in DiscoveryArgs
    /\ dpc = "idle"
    /\ dcreators = <<>>
    /\ discovered_creators = {}
    /\ start_time = 0
    /\ last_scroll_time = 0
    /\ items = 0
    /\ dresult = Returned(<<>>)
    /\ dtrace = [NoDTrace EXCEPT !.seen_before = discovered_creators]

discOther == <<rlOnly, regVars, engVars, addVars, bVars>>

\* instagram_discovery.py:55-79, 84-86, 98-100  the feed session is opened:
\* browser launch, new_page, headers, viewport, goto and the 3 s pause.  If
\* one of them raises, the except clause returns [].
OpenSession(fails) ==
    /\ dpc = "idle"
    /\ IF fails = "none"
          THEN /\ dpc' = "loop"
               /\ start_time' = now
               /\ last_scroll_time' = now
               /\ dtrace' = [dtrace EXCEPT !.last_new = now,
                                           !.page_open = TRUE]
               /\ UNCHANGED dresult
          ELSE /\ dpc' = "returned"
               /\ dresult' = Returned(<<>>)
               /\ dtrace' = [dtrace EXCEPT !.open_failed = TRUE,
                                           !.page_open = fails = "goto"]
               /\ UNCHANGED <<start_time, last_scroll_time>>
    /\ UNCHANGED <<now, args, dcreators, discovered_creators, items, discOther>>

\* instagram_discovery.py:104-105  the while condition holds and an
\* iteration begins
EnterStep ==
    /\ dpc = "loop"
    /\ LoopCondition
    /\ dpc' = IterationEntry
    /\ dtrace' = [dtrace EXCEPT !.last_item = "none"]
    /\ UNCHANGED <<now, args, dcreators, discovered_creators, start_time,
                   last_scroll_time, items, dresult, discOther>>

\* instagram_discovery.py:107; rate_limiter.py:127-137, 56-66
\* wait_for_platform('instagram', 'scraping') returns: it does so after its
\* own acquire(1) has taken one token.  The time it waited is counted in the
\* duration of the step.
Throttle ==
    /\ dpc = "throttle"
    /\ dpc' = "scroll"
    /\ dtrace' = [dtrace EXCEPT !.taken = @ + 1, !.navs = 0]
    /\ UNCHANGED <<now, args, dcreators, discovered_creators, start_time,
                   last_scroll_time, items, dresult, discOther>>

\* instagram_discovery.py:110-114, 150-222  the scroll, the pause and the
\* extraction; with the throttle they take d seconds.  The scroll or the
\* pause may raise (the extraction catches its own exceptions, 211-213).
\* The extraction finds v handles and navigates the page to the profile of
\* each (198-201, 220); n of them are in the list it returns.
ScrollAndExtract(d, raises, v, n) ==
    /\ dpc = "scroll"
    /\ d \in StepDurations(args.scroll_duration)
    /\ now < MaxHalfDays * HalfDay
    /\ n <= v
    /\ raises => v = 0
    /\ now' = now + d
    /\ items' = n
    /\ IF raises
          THEN dpc' = "handler"
          ELSE dpc' = "for"
    /\ dtrace' = [dtrace EXCEPT !.scrolls = @ + 1,
                                !.navs = Min(2, @ + 1 + v)]
    /\ UNCHANGED <<args, dcreators, discovered_creators, start_time,
                   last_scroll_time, dresult, discOther>>

\* instagram_discovery.py:134-141  the stall check that ends an iteration;
\* tr is the history of the run so far
StallCheck(tr) ==
    /\ IF Seconds(now - last_scroll_time) > StallThreshold
          THEN /\ dpc' = "reload"
               /\ UNCHANGED last_scroll_time
          ELSE /\ dpc' = "loop"
               /\ last_scroll_time' = now
    /\ dtrace' = [tr EXCEPT !.last_new = IF tr.new_in_step THEN now ELSE @,
                            !.new_in_step = FALSE]

\* instagram_discovery.py:116-132  the for loop reaches the candidate c
ForItem(c) ==
    /\ dpc = "for"
    /\ items > 0
    /\ LET tr == [dtrace EXCEPT !.new_in_step =
                      @ \/ c.handle \notin discovered_creators]
       IN  IF ~RoomLeft(dcreators, args.max_creators)
              THEN \* break
                   /\ StallCheck([tr EXCEPT !.last_item = "break"])
                   /\ items' = 0
                   /\ UNCHANGED <<dcreators, discovered_creators>>
           ELSE IF Seen(c.handle)
              THEN \* continue
                   /\ items' = items - 1
                   /\ dtrace' = [tr EXCEPT !.last_item = "seen"]
                   /\ UNCHANGED <<dpc, dcreators, discovered_creators,
                                  last_scroll_time>>
           ELSE IF ~PassesFilters(c, args.niches, args.min_followers,
                                  args.max_followers)
              THEN \* continue
                   /\ items' = items - 1
                   /\ dtrace' = [tr EXCEPT !.last_item = "filtered"]
                   /\ UNCHANGED <<dpc, dcreators, discovered_creators,
                                  last_scroll_time>>
           ELSE /\ items' = items - 1
                /\ discovered_creators' = discovered_creators \cup {c.handle}
                /\ dcreators' = Append(dcreators, c)
                /\ dtrace' = [tr EXCEPT !.last_item = "appended"]
                /\ UNCHANGED <<dpc, last_scroll_time>>
    /\ UNCHANGED <<now, args, start_time, dresult, discOther>>

\* instagram_discovery.py:116, 134-141  new_creators is exhausted
ForEnd ==
    /\ dpc = "for"
    /\ items = 0
    /\ StallCheck(dtrace)
    /\ UNCHANGED <<now, args, dcreators, discovered_creators, start_time,
                   items, dresult, discOther>>

\* instagram_discovery.py:136-139  page.reload() and the 5 s pause
Reload(outcome) ==
    /\ dpc = "reload"
    /\ IF outcome = "ok"
          THEN /\ now' = now + ErrorPause
               /\ last_scroll_time' = now'
               /\ dpc' = "loop"
               /\ dtrace' = [dtrace EXCEPT !.last_new = now',
                                           !.navs = Min(2, @ + 1)]
          ELSE /\ dpc' = "handler"
               /\ dtrace' = [dtrace EXCEPT
                     !.navs = IF outcome = "pause_raises"
                                 THEN Min(2, @ + 1) ELSE @]
               /\ UNCHANGED <<now, last_scroll_time>>
    /\ UNCHANGED <<args, dcreators, discovered_creators, start_time, items,
                   dresult, discOther>>

\* instagram_discovery.py:143-145, 84-86  the except clause of the loop logs
\* and awaits page.wait_for_timeout(5000); if that call raises, the exception
\* leaves _discover_from_reels and discover_creators returns []
Handler(ok) ==
    /\ dpc = "handler"
    /\ IF ok
          THEN /\ now' = now + ErrorPause
               /\ dpc' = "loop"
               /\ UNCHANGED dresult
          ELSE /\ dpc' = "returned"
               /\ dresult' = Returned(<<>>)
               /\ UNCHANGED now
    /\ UNCHANGED <<args, dcreators, discovered_creators, start_time,
                   last_scroll_time, items, dtrace, discOther>>

\* instagram_discovery.py:104, 147-148  the while condition is false
ExitLoop ==
    /\ dpc = "loop"
    /\ ~LoopCondition
    /\ dpc' = "closing"
    /\ UNCHANGED <<now, args, dcreators, discovered_creators, start_time,
                   last_scroll_time, items, dresult, dtrace, discOther>>

\* instagram_discovery.py:81-86  page.close(), then the list is returned; if
\* the close raises, [] is returned
DiscoveryClose(ok) ==
    /\ dpc = "closing"
    /\ dpc' = "returned"
    /\ dresult' = Returned(IF ok THEN dcreators ELSE <<>>)
    /\ dtrace' = [dtrace EXCEPT !.page_open = ~ok]
    /\ UNCHANGED <<now, args, dcreators, discovered_creators, start_time,
                   last_scroll_time, items, discOther>>

\* auto_scraper.py:45, 67, 237  the instance made in __init__ is used for
\* the run of every cycle: discover_creators is called again, with the set
\* self.discovered_creators as the last run left it (no statement of
\* instagram_discovery.py:34-148 assigns or clears it).  A run reads the
\* clock only in differences (99-104, 135), so its time is counted from the
\* call.
NewRun ==
    /\ dpc = "returned"
    /\ dpc' = "idle"
    /\ args' \in DiscoveryArgs
    /\ now' = 0
    /\ dcreators' = <<>>
    /\ start_time' = 0
    /\ last_scroll_time' = 0
    /\ items' = 0
    /\ dresult' = Returned(<<>>)
    /\ dtrace' = [NoDTrace EXCEPT !.seen_before = discovered_creators]
    /\ UNCHANGED <<discovered_creators, discOther>>

NextDiscovery ==
    \/ \E fails \in {"none", "launch", "new_page", "goto"} : OpenSession(fails)
    \/ EnterStep
    \/ Throttle
    \/ \E d \in Durations \cup {HalfDay}, raises \in BOOLEAN,
          v \in 0..MaxBatch, n \in 0..MaxBatch :
          ScrollAndExtract(d, raises, v, n)
    \/ NewRun
    \/ \E c \in Candidates : ForItem(c)
    \/ ForEnd
    \/ \E outcome \in {"ok", "reload_raises", "pause_raises"} : Reload(outcome)
    \/ \E ok \in BOOLEAN : Handler(ok)
    \/ ExitLoop
    \/ \E ok \in BOOLEAN : DiscoveryClose(ok)

\* ================================================= one list, three ways

\* What the outside world answers for one candidate of the list.  key: the
\* dictionary lacks 'source' or 'profile_url' ("missing"), names a source
\* that is neither instagram nor linkedin ("unsupported"), or is complete;
\* answer: what scraper.scrape_profile returns for it, a profile by the API
\* path, a profile by the page path, or a failure after both paths;
\* close_raises: closing a launched browser raises.  Only the page path
\* launches a browser (instagram.py:267-272).
JobCandidates ==
    { c \in [key : {"missing", "unsupported", "ok"},
             answer : {"api", "scraping", "fail"},
             close_raises : BOOLEAN] :
        /\ c.key # "ok" => c.answer = "fail"
        /\ c.close_raises => (c.key = "ok" /\ c.answer # "api") }

JobLists == [Units -> JobCandidates]

\* instagram.py:43-82  scrape_profile never raises; its result
ScrapeProfile(c) ==
    IF c.answer = "fail" THEN Res(FALSE, "scraping") ELSE Res(TRUE, c.answer)

\* run_scraper.py:36-77  scrape_creator: an unsupported source is a failure
\* with method 'none', otherwise the result of scrape_profile is returned
\* (the storage adapter's answer is only logged)
ScrapeCreator(c) ==
    IF c.key = "unsupported" THEN Res(FALSE, "none") ELSE ScrapeProfile(c)

\* run_scraper.py:91-93  scrape_with_semaphore: creator['source'] and
\* creator['profile_url'] raise KeyError for a missing key
ScrapeWithSemaphore(c) ==
    IF c.key = "missing" THEN Exc ELSE ScrapeCreator(c)

\* worker.py:67-132  _scrape_profile_async: an unsupported source raises
\* ValueError inside the try, whose handler returns a failure
ScrapeProfileAsync(c) ==
    IF c.key = "unsupported" THEN Res(FALSE, "none") ELSE ScrapeProfile(c)

\* worker.py:36-64  scrape_creator_profile: the scrape and the two
\* asyncio.run(scraper.close()) calls stand in one try; an exception of the
\* clean-up replaces the result by a failure
ScrapeCreatorProfile(c) ==
    IF c.close_raises THEN Res(FALSE, "none") ELSE ScrapeProfileAsync(c)

\* worker.py:161-192  one pass of the loop of process_creator_batch
ProcessCreator(c) ==
    IF c.key = "missing" THEN Res(FALSE, "none") ELSE ScrapeCreatorProfile(c)

GatherCompletionOrder(order) == order

\* run_scraper.py:99  asyncio.gather returns the results in the order of
\* the awaitables it was given, whatever the order in which they finished
GatherOrder(order) == [i \in 1..Len(order) |-> i]

Successes(rs) == Cardinality({i \in 1..Len(rs) : rs[i].success})

InitJobs ==
    /\ jobs \in JobLists
    /\ jpc = "idle"
    /\ jsem = 0
    /\ tpc = [u \in Units |-> "created"]
    /\ tout = [u \in Units |-> Pending]
    /\ jorder = <<>>
    /\ jresults = <<>>
    /\ jcounts = NoCounts
    /\ wresults = <<>>
    /\ wcounts = NoCounts

jobOther == <<now, rlOnly, bVars, regVars, engVars, discVars, cycVars,
              hashVars>>

\* run_scraper.py:89-99  scrape_creators_batch creates the semaphore and
\* one task per candidate and awaits the gather
ScrapeCreatorsBatch ==
    /\ jpc = "idle"
    /\ jpc' = "gather"
    /\ jsem' = max_concurrent
    /\ UNCHANGED <<jobs, tpc, tout, jorder, jresults, jcounts, wresults,
                   wcounts, jobOther>>

\* run_scraper.py:92  a task takes a permit
TaskEnter(u) ==
    /\ jpc = "gather"
    /\ tpc[u] = "created"
    /\ jsem > 0
    /\ jsem' = jsem - 1
    /\ tpc' = [tpc EXCEPT ![u] = "running"]
    /\ UNCHANGED <<jobs, jpc, tout, jorder, jresults, jcounts, wresults,
                   wcounts, jobOther>>

\* run_scraper.py:92-93  the task's scrape ends, by a result or by an
\* exception; the permit is released
TaskDone(u) ==
    /\ jpc = "gather"
    /\ tpc[u] = "running"
    /\ jsem' = jsem + 1
    /\ tpc' = [tpc EXCEPT ![u] = "done"]
    /\ tout' = [tout EXCEPT ![u] = ScrapeWithSemaphore(jobs[u])]
    /\ jorder' = Append(jorder, u)
    /\ UNCHANGED <<jobs, jpc, jresults, jcounts, wresults, wcounts, jobOther>>

\* run_scraper.py:99-113  every task is done: the gather hands over the
\* results and the exceptions among them become failures
GatherReturns ==
    /\ jpc = "gather"
    /\ \A u \in Units : tpc[u] = "done"
    /\ LET pos == GatherOrder(jorder)
       IN  jresults' = ProcessResults([i \in 1..Len(jorder) |-> tout[pos[i]]])
    /\ jpc' = "returned"
    /\ UNCHANGED <<jobs, jsem, tpc, tout, jorder, jcounts, wresults, wcounts,
                   jobOther>>

\* run_scraper.py:209-210  main counts the outcomes
CountResults ==
    /\ jpc = "returned"
    /\ jcounts' = [total_creators |-> Len(jresults),
                   successful |-> Successes(jresults),
                   failed |-> Len(jresults) - Successes(jresults),
                   success |-> Successes(jresults) = Len(jresults)]
    /\ jpc' = "counted"
    /\ UNCHANGED <<jobs, jsem, tpc, tout, jorder, jresults, wresults, wcounts,
                   jobOther>>

\* worker.py:135-159  the same list is run as one whole-list job
ProcessCreatorBatch ==
    /\ jpc = "counted"
    /\ jpc' = "loop"
    /\ wresults' = <<>>
    /\ wcounts' = [NoCounts EXCEPT !.total_creators = NumCreators]
    /\ UNCHANGED <<jobs, jsem, tpc, tout, jorder, jresults, jcounts, jobOther>>

\* worker.py:161-192  one pass of the loop: the result is appended and
\* counted; no pass leaves the loop
LoopPass ==
    /\ jpc = "loop"
    /\ Len(wresults) < NumCreators
    /\ LET r == ProcessCreator(jobs[Len(wresults) + 1])
       IN  /\ wresults' = Append(wresults, r)
           /\ wcounts' = IF r.success
                            THEN [wcounts EXCEPT !.successful = @ + 1]
                            ELSE [wcounts EXCEPT !.failed = @ + 1]
    /\ UNCHANGED <<jobs, jpc, jsem, tpc, tout, jorder, jresults, jcounts,
                   jobOther>>

\* worker.py:195-198  the loop is over
LoopEnd ==
    /\ jpc = "loop"
    /\ Len(wresults) = NumCreators
    /\ wcounts' = [wcounts EXCEPT !.success = wcounts.failed = 0]
    /\ jpc' = "done"
    /\ UNCHANGED <<jobs, jsem, tpc, tout, jorder, jresults, jcounts, wresults,
                   jobOther>>

NextJobs ==
    \/ ScrapeCreatorsBatch
    \/ \E u \in Units : TaskEnter(u)
    \/ \E u \in Units : TaskDone(u)
    \/ GatherReturns
    \/ CountResults
    \/ ProcessCreatorBatch
    \/ LoopPass
    \/ LoopEnd

\* ================================================= discovery by tag

MaxTags == 3         \* entries of the list `hashtags`

\* instagram_discovery.py:214-283  what _get_creator_basic_info returns: the
\* data of the profile, or None (it never raises)
ProfileInfos == [follower_count : FollowerCounts, niche : Niches]
NoInfo == [follower_count |-> 0, niche |-> "None"]

\* instagram_discovery.py:374-408  creator_handles[:max_creators]: the page
\* script returns [...new Set(creators)], a list without repetitions
HandleLists ==
    { l \in UNION { [1..n -> Handles] : n \in 0..NumHandles } :
        \A i, j \in 1..Len(l) : i # j => l[i] # l[j] }

DiscoveredUnchanged(set, handle) == set

\* instagram_discovery.py:420  self.discovered_creators.add(handle)
Discovered(set, handle) == set \cup {handle}

\* The engine after discover_creators has returned: the handles it emitted
\* are in the seen set (instagram_discovery.py:121-129); the run's filter
\* arguments are kept for comparison.
InitHashtags ==
    /\ args \in { a \in DiscoveryArgs :
                    a.max_creators = 1 /\ a.scroll_duration = 60 }
    /\ dpc = "returned"
    /\ dcreators = <<>>
    /\ discovered_creators \in SUBSET Handles
    /\ start_time = 0
    /\ last_scroll_time = 0
    /\ items = 0
    /\ dresult = Returned(<<>>)
    /\ dtrace = NoDTrace
    /\ hpc = "idle"
    /\ htags = 0
    /\ hlist = <<>>
    /\ hcreators = <<>>
    /\ \E e \in SUBSET discovered_creators :
          htrace = [NoHTrace EXCEPT !.emitted_before = e,
                                    !.seen_at_start = discovered_creators]

hashOther == <<now, rlOnly, bVars, regVars, engVars, jobVars, cycVars,
               args, dpc, dcreators, start_time, last_scroll_time, items,
               dresult, dtrace>>

\* instagram_discovery.py:324-339  discover_by_hashtag(hashtags): the browser
\* is launched if needed and a page is opened and prepared; if one of these
\* awaits raises, the outer handler returns the empty list
DiscoverByHashtag(n, ok) ==
    /\ hpc = "idle"
    /\ dpc = "returned"
    /\ hpc' = IF ok THEN "tags" ELSE "returned"
    /\ htags' = IF ok THEN n ELSE 0
    /\ UNCHANGED <<hlist, hcreators, htrace, discovered_creators, hashOther>>

\* instagram_discovery.py:339-354, 363-406  the next tag: the navigation or
\* its pause raises and the loop continues with the following tag, or the
\* page is scrolled and the handles on it are read (if that raises,
\* _extract_creators_from_hashtag returns its empty list)
BrowseTag(raises, handles) ==
    /\ hpc = "tags"
    /\ htags > 0
    /\ IF raises
          THEN /\ htags' = htags - 1
               /\ htrace' = [htrace EXCEPT !.tag_failed = TRUE]
               /\ UNCHANGED <<hpc, hlist>>
          ELSE /\ hpc' = "handles"
               /\ hlist' = handles
               /\ htrace' = [htrace EXCEPT !.after_failure = @ \/ htrace.tag_failed]
               /\ UNCHANGED htags
    /\ UNCHANGED <<hcreators, discovered_creators, hashOther>>

\* instagram_discovery.py:408-422  one pass of the for loop over the
\* handles: a handle in the seen set is passed over; for another one the
\* profile is visited and, if data came back, the candidate is appended and
\* its handle added to the seen set
HandleStep(info) ==
    /\ hpc = "handles"
    /\ hlist # <<>>
    /\ LET handle == Head(hlist)
           again  == \E i \in 1..Len(hcreators) : hcreators[i].handle = handle
       IN  /\ htrace' = [htrace EXCEPT !.passed_over = @ \/ again]
           /\ IF Seen(handle)
                 THEN /\ info = NoInfo
                      /\ UNCHANGED <<hcreators, discovered_creators>>
              ELSE IF info = NoInfo
                 THEN UNCHANGED <<hcreators, discovered_creators>>
              ELSE /\ hcreators' = Append(hcreators,
                                        [handle |-> handle,
                                         follower_count |-> info.follower_count,
                                         niche |-> info.niche])
                   /\ discovered_creators' =
                          Discovered(discovered_creators, handle)
    /\ hlist' = Tail(hlist)
    /\ UNCHANGED <<hpc, htags, hashOther>>

\* instagram_discovery.py:424, 349-350  the handles of the tag are through:
\* the candidates of the tag join the list and the next tag follows
TagEnd ==
    /\ hpc = "handles"
    /\ hlist = <<>>
    /\ hpc' = "tags"
    /\ htags' = htags - 1
    /\ UNCHANGED <<hlist, hcreators, htrace, discovered_creators, hashOther>>

\* instagram_discovery.py:356-361  after the last tag the page is closed and
\* the list returned; if the close raises, the outer handler returns it
HashtagsReturn ==
    /\ hpc = "tags"
    /\ htags = 0
    /\ hpc' = "returned"
    /\ UNCHANGED <<htags, hlist, hcreators, htrace, discovered_creators,
                   hashOther>>

NextHashtags ==
    \/ \E n \in 0..MaxTags, ok \in BOOLEAN : DiscoverByHashtag(n, ok)
    \/ \E raises \in BOOLEAN, handles \in HandleLists : BrowseTag(raises, handles)
    \/ \E info \in ProfileInfos \cup {NoInfo} : HandleStep(info)
    \/ TagEnd
    \/ HashtagsReturn

\* ================================================= auto scraper cycles

MaxCycles == 3       \* cycles run by one process

\* auto_scraper.py:83-89  the lists discover_creators can return: no handle
\* occurs in them twice
UniqueLists ==
    { l \in UNION { [1..n -> Handles] : n \in 0..NumHandles } :
        \A i, j \in 1..Len(l) : i # j => l[i] # l[j] }

\* auto_scraper.py:109-124  the candidates whose handle is not in the file
NewCreators(list, existing_handles) ==
    SelectSeq(list, LAMBDA h : h \notin existing_handles)

\* auto_scraper.py:247, simple_auto_scraper.py:244  the candidates handed to
\* the scraping step: creators[:saved_count]
ToScrape(list, n) == SubSeq(list, 1, n)

\* a file creators.csv may exist when the process starts
InitCycles ==
    /\ cpc = "idle"
    /\ cycles = 0
    /\ csv \in SUBSET Handles
    /\ cdiscovered = <<>>
    /\ new_creators = <<>>
    /\ saved_count = 0
    /\ cstarted = <<>>

cycOther == <<now, rlOnly, bVars, regVars, engVars, discVars, jobVars,
              hashVars>>

\* auto_scraper.py:236-238  run_cycle: the awaited discovery returns
CycleDiscovers(list) ==
    /\ cpc \in {"idle", "started"}
    /\ cycles < MaxCycles
    /\ cycles' = cycles + 1
    /\ cpc' = "discovered"
    /\ cdiscovered' = list
    /\ new_creators' = <<>>
    /\ saved_count' = 0
    /\ cstarted' = <<>>
    /\ UNCHANGED <<csv, cycOther>>

\* auto_scraper.py:240-248, 98-146  run_cycle goes on without a suspension:
\* save_creators_to_csv appends the candidates that are not in the file and
\* returns their number, or 0 if it raised before writing; if the number is
\* positive the scraping step is started with a part of the discovered list
CycleSavesAndStarts(raises) ==
    /\ cpc = "discovered"
    /\ cpc' = "started"
    /\ IF cdiscovered = <<>> \/ raises
          THEN UNCHANGED <<csv, new_creators, saved_count, cstarted>>
          ELSE LET new == NewCreators(cdiscovered, csv)
               IN  /\ new_creators' = new
                   /\ csv' = csv \cup { new[i] : i \in 1..Len(new) }
                   /\ saved_count' = Len(new)
                   /\ cstarted' = IF Len(new) > 0
                                     THEN ToScrape(cdiscovered, Len(new))
                                     ELSE <<>>
    /\ UNCHANGED <<cycles, cdiscovered, cycOther>>

NextCycles ==
    \/ \E list \in UniqueLists : CycleDiscovers(list)
    \/ \E raises \in BOOLEAN : CycleSavesAndStarts(raises)

\* ======================================================== specifications

\* an orchestrator that is given nothing to do
ConfigIdle ==
    /\ creators = [u \in Units |-> [source |-> "tiktok", url |-> "instagram"]]
    /\ use_api = FALSE
    /\ access_token = [s \in Sources |-> FALSE]
    /\ max_concurrent = 1

\* The limiter is used by one task alone or by all of them.
InitRL ==
    /\ \E a \in {{1}, Callers} : InitLimiter(a)
    /\ BatchIdle /\ ConfigIdle /\ RegistryIdle /\ EngagementIdle
    /\ DiscoveryIdle /\ JobsIdle /\ CycleIdle /\ HashtagsIdle

Init == InitRL

SpecRL == Init /\ [][NextRL]_vars

\* The same limiter used by one task alone or by two tasks.
InitRLFair ==
    (\E k \in {1, Min(2, NumCallers)} : InitLimiter(1..k))
        /\ BatchIdle /\ ConfigIdle /\ RegistryIdle /\ EngagementIdle
    /\ DiscoveryIdle /\ JobsIdle /\ CycleIdle /\ HashtagsIdle

\* The event loop runs every ready task and time passes.
SpecRLFair ==
    /\ InitRLFair
    /\ [][NextRL]_vars
    /\ WF_vars(Tick)
    /\ \A c \in Callers : WF_vars(CallerStep(c))

SpecBatch == InitBatch /\ [][NextBatch]_vars

\* A batch of more candidates than permits, with the API path switched on
\* and a token for every scraper: units wait for a permit and a scrape can go
\* through both paths.
InitBatchFair ==
    /\ InitBatch
    /\ use_api
    /\ \A s \in Sources : access_token[s]
    /\ max_concurrent < NumCreators

\* The event loop runs every ready task, every awaited call of a scrape ends
\* and time passes.
SpecBatchFair ==
    /\ InitBatchFair
    /\ [][NextBatch]_vars
    /\ WF_vars(StartBatch)
    /\ WF_vars(BatchTick)
    /\ WF_vars(Collect)
    /\ WF_vars(Count)
    /\ \A u \in Units : WF_vars(UnitStep(u))

\* A freshly imported registry; nothing else runs.
InitRegistrySpec ==
    /\ LimiterIdle
    /\ NoBatch
    /\ ConfigIdle
    /\ InitRegistry
    /\ EngagementIdle
    /\ DiscoveryIdle
    /\ JobsIdle /\ CycleIdle /\ HashtagsIdle

SpecRegistry == InitRegistrySpec /\ [][NextRegistry]_vars

\* One profile is built from collected data; nothing else runs.
InitEngagementSpec ==
    /\ LimiterIdle
    /\ BatchIdle
    /\ ConfigIdle
    /\ RegistryIdle
    /\ DiscoveryIdle
    /\ JobsIdle /\ CycleIdle /\ HashtagsIdle
    /\ InitEngagement

SpecEngagement == InitEngagementSpec /\ [][NextEngagement]_vars

\* One discovery run; nothing else runs.
InitDiscoverySpec ==
    /\ LimiterIdle
    /\ BatchIdle
    /\ ConfigIdle
    /\ RegistryIdle
    /\ EngagementIdle
    /\ JobsIdle /\ CycleIdle /\ HashtagsIdle
    /\ InitDiscovery

SpecDiscovery == InitDiscoverySpec /\ [][NextDiscovery]_vars

\* One profile is built by an API path from posts with timestamps.
InitPostsSpec ==
    /\ LimiterIdle
    /\ BatchIdle
    /\ ConfigIdle
    /\ RegistryIdle
    /\ DiscoveryIdle
    /\ JobsIdle /\ CycleIdle /\ HashtagsIdle
    /\ InitPosts

SpecPosts == InitPostsSpec /\ [][NextEngagement]_vars

\* One list of candidates, submitted to scrape_creators_batch and then as
\* one whole-list job; nothing else runs.
InitJobsSpec ==
    /\ LimiterIdle
    /\ BatchIdle
    /\ creators = [u \in Units |-> [source |-> "tiktok", url |-> "instagram"]]
    /\ use_api = FALSE
    /\ access_token = [s \in Sources |-> FALSE]
    /\ max_concurrent \in 1..MaxConcurrent
    /\ RegistryIdle
    /\ EngagementIdle
    /\ DiscoveryIdle
    /\ CycleIdle
    /\ HashtagsIdle
    /\ InitJobs

SpecJobs == InitJobsSpec /\ [][NextJobs]_vars

\* One discover_by_hashtag call on an engine that has run discover_creators;
\* nothing else runs.
InitHashtagsSpec ==
    /\ LimiterIdle
    /\ BatchIdle
    /\ ConfigIdle
    /\ RegistryIdle
    /\ EngagementIdle
    /\ JobsIdle
    /\ CycleIdle
    /\ InitHashtags

SpecHashtags == InitHashtagsSpec /\ [][NextHashtags]_vars

\* Cycles of the auto scraper; nothing else runs.
InitCyclesSpec ==
    /\ LimiterIdle
    /\ BatchIdle
    /\ ConfigIdle
    /\ RegistryIdle
    /\ EngagementIdle
    /\ DiscoveryIdle
    /\ JobsIdle
    /\ HashtagsIdle
    /\ InitCycles

SpecCycles == InitCyclesSpec /\ [][NextCycles]_vars

\* ===================================================== RateLimiter claims

InSection(c) == pc[c] = "locked"

\* C1: in every reachable state the balance is within [0, capacity].
C1_TokensInRange ==
    /\ 0 <= tokens
    /\ tokens <= Capacity * RateDen

\* an acquire ran whose uncapped refill would have exceeded the capacity
C1_Witness ==
    /\ last_acq.n > 0
    /\ last_acq.pre + (last_acq.t - last_acq.lu) * RateNum > Capacity * RateDen

\* tokens handed out by the step, if the step is the end of an acquire
GrantedBy(c) == IF ret'[c] = "True" THEN req[c] * RateDen ELSE 0

\* C2: the refill-check-decrement sections of two acquires never overlap, and
\* in every step the balance plus the tokens handed out grows by no more than
\* the refill credited for the time by which last_update moved forward (so
\* over any interval the tokens granted are at most the starting balance plus
\* the refill of the interval).
C2_Serialized ==
    [][ /\ \A c, d \in Callers : (InSection(c) /\ InSection(d)) => c = d
        /\ \A c \in Callers :
              (InSection(c) /\ ~InSection(c)') =>
                  tokens' + GrantedBy(c) - tokens
                      <= (last_update' - last_update) * RateNum
        /\ (\A c \in Callers : ~(InSection(c) /\ ~InSection(c)')) =>
                  (tokens' = tokens /\ last_update' = last_update) ]_vars

\* one task is inside the section while another one stands at the lock
C2_Witness ==
    \E c, d \in Callers : c # d /\ pc[c] = "locked" /\ pc[d] = "start"

\* C3: the latest acquire(n) left tokens = min(capacity, pre + elapsed * rate)
\* less n when that balance was at least n (and returned True) and left it
\* undiminished otherwise (and returned False), with last_update = its now;
\* from a full bucket at tick 0, of acquire(1) calls exactly the first
\* `capacity` ones succeed.
C3_AcquireContract ==
    /\ last_acq.n > 0 =>
          LET full == Capacity * RateDen
              sum  == last_acq.pre + (last_acq.t - last_acq.lu) * RateNum
              bal  == IF sum < full THEN sum ELSE full
          IN  /\ last_acq.ok <=> bal >= last_acq.n * RateDen
              /\ last_acq.ok => tokens = bal - last_acq.n * RateDen
              /\ ~last_acq.ok => tokens = bal
              /\ last_update = last_acq.t
    /\ drain => nOk = (IF nAcq < Capacity THEN nAcq ELSE Capacity)

\* more than `capacity` acquire(1) calls were made on the full bucket at tick 0
C3_Witness ==
    /\ drain
    /\ nAcq > Capacity
    /\ nOk = Capacity
    /\ ~last_acq.ok

\* C4: the wait computed after a failed acquire is strictly positive; for a
\* lone task asking for 1 token of an empty bucket it is 1 / rate.
C4_PositiveWait ==
    \A c \in Callers :
        pc[c] = "sleeping" =>
            /\ wait_time[c] > 0
            /\ (active = {c} /\ req[c] = 1 /\ tokens = 0)
                  => wait_time[c] = RateDen

\* a lone task sleeps after asking for 1 token of an empty bucket
C4_Witness ==
    \E c \in Callers :
        /\ pc[c] = "sleeping"
        /\ req[c] = 1
        /\ tokens = 0
        /\ active = {c}

\* C5: wait_for_tokens(n), 1 <= n <= capacity, returns only after an acquire
\* of its own has returned True, and a lone task's call eventually returns.
C5_WaitReturns ==
    /\ [](\A c \in Callers :
            (op[c] = "wait" /\ pc[c] = "returned") => ret[c] = "True")
    /\ \A c \in Callers :
          (active = {c} /\ op[c] = "wait" /\ pc[c] = "start"
              /\ req[c] <= Capacity) ~> (pc[c] = "returned")

\* a wait_for_tokens call has returned after sleeping at least once
C5_Witness ==
    \E c \in Callers :
        /\ op[c] = "wait"
        /\ pc[c] = "returned"
        /\ slept[c]
        /\ req[c] <= Capacity

\* C39: wait_for_tokens(n) with n > capacity never returns: the balance
\* never exceeds capacity, so none of its acquires returns True and the call
\* stays in its loop of acquire and sleep.
C39_OversizedWaitNeverReturns ==
    \A c \in Callers :
        (op[c] = "wait" /\ req[c] > Capacity) =>
            /\ pc[c] # "returned"
            /\ ret[c] # "True"
            /\ tokens < req[c] * RateDen

\* a wait_for_tokens call for more than capacity has slept, woken up and is
\* about to call acquire again
C39_Witness ==
    \E c \in Callers :
        /\ op[c] = "wait"
        /\ req[c] > Capacity
        /\ slept[c]
        /\ pc[c] = "start"
        /\ ret[c] = "False"

\* ===================================================== batch claims

InProgress(u) == upc[u] \notin {"none", "created", "done"}

LacksKey(u) == creators[u].source = "MISSING" \/ creators[u].url = "MISSING"

\* C6: at most max_concurrent scrape units are between the acquisition and
\* the release of the semaphore, wherever they are suspended.
C6_BoundedConcurrency ==
    Cardinality({u \in Units : InProgress(u)}) <= max_concurrent

\* every permit is taken by a unit suspended in a page call and another
\* candidate is still held back by the semaphore
C6_Witness ==
    /\ Cardinality({u \in Units : InProgress(u)}) = max_concurrent
    /\ \E u \in Units : upc[u] = "created"
    /\ \A u \in Units : InProgress(u) => upc[u] = "pw_page"

\* C7: the batch returns one result per candidate, and the successful and
\* failed counts add up to the number of candidates.
C7_OneResultPerCandidate ==
    /\ bpc \in {"returned", "counted"} =>
          Len(processed_results) = NumCreators
    /\ bpc = "counted" =>
          /\ successful + failed = NumCreators
          /\ successful = Cardinality({u \in Units : uresult[u].success})

\* a counted batch with a success and a unit that raised
C7_Witness ==
    /\ bpc = "counted"
    /\ successful > 0
    /\ failed > 0
    /\ \E u \in Units : uresult[u].kind = "exception"

\* C8: the batch call never raises; a candidate that lacks a key is reported
\* as a failed result with method 'none' and every other candidate's own
\* scrape result is returned in its place.
C8_FailureIsolation ==
    /\ bpc # "raised"
    /\ bpc \in {"returned", "counted"} =>
          \A u \in Units :
              /\ upc[u] = "done"
              /\ LacksKey(u) =>
                    /\ uresult[u].kind = "exception"
                    /\ processed_results[u] = Res(FALSE, "none")
              /\ ~LacksKey(u) =>
                    /\ uresult[u].kind = "result"
                    /\ processed_results[u] = uresult[u]

\* a batch returned although one unit raised, with a sibling's success in it
C8_Witness ==
    /\ bpc = "returned"
    /\ \E u \in Units : LacksKey(u)
    /\ \E u \in Units : processed_results[u] = Res(TRUE, "scraping")

NoToken(u) ==
    /\ creators[u].source \in Sources
    /\ use_api
    /\ ~access_token[creators[u].source]

\* C9: with use_api set and no access token, a scrape takes nothing from the
\* API budget, issues no API sub-call and is never on the API path; its
\* success carries method 'scraping'.
C9_NoTokenNoApi ==
    \A u \in Units :
        NoToken(u) =>
            /\ trace[u].api_acq = 0
            /\ ~trace[u].api_called
            /\ upc[u] \notin {"api_rl", "api_sleep", "api_call"}
            /\ limiters[Key(creators[u].source, "api")].tokens
                  = BudgetCapacity * RateDen
            /\ (upc[u] = "done" /\ uresult[u].success) =>
                  uresult[u].method = "scraping"

\* a scrape without token has succeeded
C9_Witness ==
    \E u \in Units : NoToken(u) /\ upc[u] = "done" /\ uresult[u].success

\* C10: after a failed API attempt the unit is on the page path or has
\* finished through it; the API failure is not what it returns, and when the
\* page path returned a success the unit returns success with 'scraping'.
C10_ApiFailureFallsBack ==
    \A u \in Units :
        trace[u].api_out = "fail" =>
            /\ upc[u] \in {"pw_rl", "pw_sleep", "pw_launch", "pw_newpage",
                           "pw_page", "pw_close", "done"}
            /\ upc[u] = "done" =>
                  /\ trace[u].pw_out # "none"
                  /\ trace[u].pw_acq = 1
                  /\ uresult[u] # Res(FALSE, "api")
                  /\ trace[u].pw_out = "ok" => uresult[u] = Res(TRUE, "scraping")

\* a unit whose API attempt failed has returned a page-extraction success
C10_Witness ==
    \E u \in Units :
        /\ trace[u].api_out = "fail"
        /\ upc[u] = "done"
        /\ uresult[u] = Res(TRUE, "scraping")

BadUrl(u) ==
    /\ creators[u].source \in Sources
    /\ creators[u].url # "MISSING"
    /\ creators[u].url # creators[u].source

\* C11: a scrape whose profile_url yields no handle takes no rate-limit
\* token, issues no API sub-call and opens no page; it is never on either
\* path, and what it returns is a failure with method 'none'.
C11_InvalidUrlNoAction ==
    \A u \in Units :
        BadUrl(u) =>
            /\ upc[u] \in {"none", "created", "done"}
            /\ trace[u] = NoTrace
            /\ upc[u] = "done" => uresult[u] = Res(FALSE, "none")

\* a scrape with an unparsable URL has returned while a sibling with a good
\* URL took a token
C11_Witness ==
    /\ \E u \in Units : BadUrl(u) /\ upc[u] = "done"
    /\ \E u \in Units : trace[u].pw_acq > 0

\* C17: scrape_profile never raises: the only tasks that end with an
\* exception are those that failed before calling it (a missing key), and a
\* scrape whose page close raised returns a failure result.
C17_ScrapeNeverRaises ==
    \A u \in Units :
        /\ uresult[u].kind = "exception" => LacksKey(u)
        /\ (upc[u] = "done" /\ trace[u].pw_out = "raised") =>
              /\ uresult[u].kind = "result"
              /\ ~uresult[u].success
        /\ (upc[u] = "done" /\ ~LacksKey(u)) => uresult[u].kind = "result"

\* a scrape has returned after page.close() raised
C17_Witness ==
    \E u \in Units : upc[u] = "done" /\ trace[u].pw_out = "raised"

ApiStates  == {"api_rl", "api_sleep", "api_call"}
PageStates == {"pw_launch", "pw_newpage", "pw_page", "pw_close"}

\* C21: in one scrape the API path is entered at most once and the page path
\* at most once, and no path is entered again after it has given its outcome;
\* a unit whose API path succeeded is done with a success of method 'api',
\* has not entered the page path and has taken no token of the scraping budget.
C21_PathsOnce ==
    \A u \in Units :
        /\ trace[u].api_acq <= 1
        /\ trace[u].pw_acq <= 1
        /\ trace[u].api_out # "none" => upc[u] \notin ApiStates
        /\ trace[u].pw_out # "none" => upc[u] = "done"
        /\ trace[u].api_out = "ok" =>
              /\ upc[u] = "done"
              /\ uresult[u] = Res(TRUE, "api")
              /\ trace[u].pw_acq = 0
              /\ trace[u].pw_out = "none"

\* a scrape has returned its API success while a sibling of the same source
\* is on the page path
C21_Witness ==
    \E u, v \in Units :
        /\ trace[u].api_out = "ok"
        /\ upc[u] = "done"
        /\ creators[v].source = creators[u].source
        /\ upc[v] \in PageStates

\* C22: an API attempt in which a sub-call failed is a failed attempt, and a
\* scrape returns an API success only if none of its sub-calls failed.
C22_SubCallFailureFails ==
    \A u \in Units :
        /\ trace[u].sub_failed => trace[u].api_out = "fail"
        /\ (upc[u] = "done" /\ uresult[u] = Res(TRUE, "api")) =>
              ~trace[u].sub_failed

\* C23: a finished scrape whose API attempt failed and whose page path did
\* not succeed returns the failure with method 'scraping'.
C23_BothFailReturnsScraping ==
    \A u \in Units :
        (/\ upc[u] = "done"
         /\ trace[u].api_out = "fail"
         /\ trace[u].pw_out \in {"fail", "raised"}) =>
            uresult[u] = Res(FALSE, "scraping")

\* C24: a unit reaches its first API sub-call only from the acquisition on
\* the API budget, and the browser or page only from the acquisition on the
\* scraping budget; that step is the unit's only acquisition on the budget
\* and takes exactly one token from what the refill gave.
C24_TokenBeforePath ==
    [][\A u \in Units :
          LET src  == creators[u].source
              took(key) ==
                  limiters'[key].tokens =
                      Refill(BudgetCapacity, limiters[key].tokens,
                             now - limiters[key].last_update) - RateDen
          IN  /\ (upc'[u] = "api_call" /\ upc[u] # "api_call") =>
                    /\ upc[u] = "api_rl"
                    /\ trace[u].api_acq = 0
                    /\ trace'[u].api_acq = 1
                    /\ took(Key(src, "api"))
              /\ (upc'[u] \in PageStates /\ upc[u] \notin PageStates) =>
                    /\ upc[u] = "pw_rl"
                    /\ trace[u].pw_acq = 0
                    /\ trace'[u].pw_acq = 1
                    /\ took(Key(src, "scraping"))
              /\ trace'[u].api_acq # trace[u].api_acq => upc'[u] = "api_call"
              /\ trace'[u].pw_acq # trace[u].pw_acq => upc'[u] \in PageStates
      ]_vars

\* a unit took one token of each budget and has its page open, at a time
\* when a sleep in a limiter has let the clock advance
C24_Witness ==
    \E u \in Units :
        /\ trace[u].api_acq = 1
        /\ trace[u].pw_acq = 1
        /\ upc[u] = "pw_page"
        /\ now > 0

\* C25: a started batch returns, and when it has returned every permit of
\* the semaphore is free.
C25_PermitsReturned ==
    /\ [](bpc \in {"returned", "counted"} => sem = max_concurrent)
    /\ (bpc = "gather") ~> (bpc = "returned")

\* a batch with more candidates than permits has returned; one unit raised,
\* one failed and had slept in a limiter
C25_Witness ==
    /\ bpc = "returned"
    /\ sem = max_concurrent
    /\ max_concurrent < NumCreators
    /\ \E u \in Units : uresult[u].kind = "exception"
    /\ \E u \in Units : uresult[u].kind = "result" /\ ~uresult[u].success

\* schemas.py:131-138  of the fields of a ScrapingResult (success, profile,
\* error, method_used, retry_count) only `profile` names an account, and it
\* is set on a success only; run_scraper.py:105-109 puts str(exception) in
\* `error` and nothing of the candidate
IdentifiesCandidate(r) == r.kind = "result" /\ r.success

\* C26: every outcome of the returned list identifies its candidate.
C26_OutcomeNamesCandidate ==
    bpc \in {"returned", "counted"} =>
        \A i \in 1..Len(processed_results) :
            IdentifiesCandidate(processed_results[i])

\* C27: a scraper's browser is launched by one unit at a time and only while
\* the scraper has none.
C27_OneLaunchPerScraper ==
    \A u \in Units :
        upc[u] = "pw_launch" =>
            /\ ~browser[creators[u].source]
            /\ \A v \in Units \ {u} :
                  ~(/\ upc[v] = "pw_launch"
                    /\ creators[v].source = creators[u].source)

\* ===================================================== registry claims

\* C20: no step removes a key or binds it to another limiter; a get_limiter
\* call returns the limiter bound to the key, leaves every limiter that
\* existed as it was (token state included), and for a key not yet present
\* binds a full limiter with capacity 10 and rate 10/3600.
C20_RegistryGrows ==
    [][ /\ \A k \in DOMAIN limiters :
              /\ k \in DOMAIN limiters'
              /\ limiters'[k].id = limiters[k].id
              /\ limiters'[k].capacity = limiters[k].capacity
              /\ limiters'[k].rate = limiters[k].rate
        /\ lookups' = lookups + 1 =>
              /\ got'.key \in DOMAIN limiters'
              /\ got'.id = limiters'[got'.key].id
              /\ got'.tokens = limiters'[got'.key].tokens
              /\ \A k \in DOMAIN limiters : limiters'[k] = limiters[k]
              /\ got'.key \notin DOMAIN limiters =>
                    /\ DOMAIN limiters' = DOMAIN limiters \cup {got'.key}
                    /\ limiters'[got'.key].capacity = 10
                    /\ limiters'[got'.key].rate = <<10, 3600>>
                    /\ limiters'[got'.key].tokens = 10 * 3600
                    /\ limiters'[got'.key].last_update = now ]_vars

\* get_limiter has returned, for a key that is not one of the four defaults,
\* a limiter created by an earlier call and partly spent since
C20_Witness ==
    /\ got.key \notin DefaultKeys
    /\ got.key \in DOMAIN limiters
    /\ got.id = limiters[got.key].id
    /\ got.tokens < 10 * 3600
    /\ lookups >= 2

\* C37: two get_limiter calls for different (platform, method) pairs return
\* different limiters, also when a name contains an underscore.
C37_DistinctPairsDistinctLimiters ==
    [][ (lookups' = lookups + 1 /\ got # NoLimiter /\ got'.pair # got.pair)
            => got'.key # got.key ]_vars

\* ===================================================== profile claims

\* the API data of an Instagram account with followers and well-formed posts
PlainInstagram ==
    /\ scraped.path = "instagram_api"
    /\ scraped.follower_count > 0
    /\ scraped.posts # <<>>
    /\ \A i \in 1..Len(scraped.posts) :
          scraped.posts[i].likes >= 0 /\ scraped.posts[i].comments >= 0

ComesBefore(a, b, Above(_, _)) ==
    Above(a, b) \/ (~Above(b, a) /\ a.pos < b.pos)

\* list holds the k first of all (or all of them) in that order
OrderedSelection(list, all, k, Above(_, _)) ==
    /\ Len(list) = Min(k, Len(all))
    /\ \A i \in 1..Len(list) : \E j \in 1..Len(all) : list[i] = all[j]
    /\ \A i, j \in 1..Len(list) :
          i < j => ComesBefore(list[i], list[j], Above)
    /\ \A j \in 1..Len(all) :
          (\A i \in 1..Len(list) : list[i] # all[j]) =>
              \A i \in 1..Len(list) : ComesBefore(list[i], all[j], Above)

\* C35: a profile built by an API path has as top_posts the 3 posts of
\* highest engagement and as recent_posts_sample the 5 posts of latest
\* timestamp, each in that order with ties in the order of extraction, and
\* neither list has more than 10 entries.
C35_PostListsOrdered ==
    (profile.kind = "profile" /\ scraped.path = "instagram_api") =>
        LET all == InstagramPosts(scraped.posts, scraped.follower_count)
        IN  /\ OrderedSelection(profile.top_posts, all, 3, RateAbove)
            /\ OrderedSelection(profile.recent_posts_sample, all, 5,
                                StampAbove)
            /\ Len(profile.top_posts) <= 10
            /\ Len(profile.recent_posts_sample) <= 10

\* ===================================================== discovery claims

HandlesOf(list) == { list[i].handle : i \in 1..Len(list) }

\* C12: the output list never holds more than max_creators candidates, and
\* neither does the list discover_creators returns.
C12_BoundedOutput ==
    /\ Len(dcreators) <= args.max_creators
    /\ dpc = "returned" => Len(dresult.creators) <= args.max_creators

\* a run has returned max_creators candidates after its for loop left a
\* step's candidates unprocessed
C12_Witness ==
    /\ dpc = "returned"
    /\ dtrace.last_item = "break"
    /\ Len(dresult.creators) = args.max_creators

\* C13: no handle appears twice in the output list or in the returned list.
C13_NoDuplicateHandles ==
    /\ \A i, j \in 1..Len(dcreators) :
          dcreators[i].handle = dcreators[j].handle => i = j
    /\ \A i, j \in 1..Len(dresult.creators) :
          dresult.creators[i].handle = dresult.creators[j].handle => i = j

\* a fresh instance has returned a candidate whose handle a later extraction
\* yielded again
C13_Witness ==
    /\ dpc = "returned"
    /\ dtrace.seen_before = {}
    /\ dtrace.last_item = "seen"
    /\ Len(dresult.creators) >= 1

\* C14: every candidate of the output and of the returned list has a
\* follower count within [min_followers, max_followers] and, when niches are
\* configured, a niche among them; the seen set holds nothing but what the
\* instance had seen before and the handles of the output.
C14_FilterRespected ==
    /\ \A l \in {dcreators, dresult.creators} :
          \A i \in 1..Len(l) :
              /\ args.min_followers <= l[i].follower_count
              /\ l[i].follower_count <= args.max_followers
              /\ args.niches # {} => l[i].niche \in args.niches
    /\ discovered_creators = dtrace.seen_before \cup HandlesOf(dcreators)

\* with a niche list configured, a run has returned a candidate and the last
\* candidate it looked at failed the filter
C14_Witness ==
    /\ dpc = "returned"
    /\ args.niches # {}
    /\ dtrace.last_item = "filtered"
    /\ Len(dresult.creators) >= 1
    /\ discovered_creators # Handles

\* C15: a step that ends more than 30 seconds after the last step that
\* extracted a candidate not seen before (or after the last reload, or the
\* start) goes on to reload the feed page.
C15_StallReloads ==
    [][ (dpc = "for" /\ dpc' \in {"loop", "reload"}
            /\ now' - dtrace'.last_new > StallThreshold)
          => dpc' = "reload" ]_vars

\* C18: after an exception was caught in the loop, the loop goes on to its
\* next iteration with the output unchanged.
C18_StepErrorContinues ==
    [][ dpc = "handler" => (dpc' = "loop" /\ dcreators' = dcreators) ]_vars

\* C19: a run whose feed session could not be opened returns no candidates
\* and an error marker.
C19_OpenFailureMarked ==
    (dpc = "returned" /\ dtrace.open_failed) =>
        /\ dresult.creators = <<>>
        /\ dresult.error_marker

\* C28: the seen set with which a run is entered is empty.
C28_SeenSetPerRun ==
    dpc # "idle" => dtrace.seen_before = {}

\* C29: a scroll advance is made only by an iteration that has taken its
\* token and made no navigation since, and the scroll advances of a run never
\* outnumber the tokens the run took.
C29_ScrollAfterToken ==
    /\ dtrace.scrolls <= dtrace.taken
    /\ dpc = "scroll" =>
          /\ dtrace.taken = dtrace.scrolls + 1
          /\ dtrace.navs = 0

\* the third iteration of a run has its token and is about to scroll; the
\* run has been through a pause of the handler or of a reload
C29_Witness ==
    /\ dpc = "scroll"
    /\ dtrace.scrolls = 2
    /\ now - start_time > 2 * 20

\* C30: no navigation of the loop is made without a token taken after the
\* navigation before it.
C30_TokenBeforeNavigation ==
    dtrace.navs <= 1

\* C31: a step is started only with fewer than max_creators candidates in
\* the output and less than scroll_duration seconds gone since the start.
C31_StepWithinBounds ==
    [][ (dpc = "loop" /\ dpc' = IterationEntry) =>
            /\ Len(dcreators) < args.max_creators
            /\ now - start_time < args.scroll_duration ]_vars

\* C32: a run that has returned after its page was created has closed it.
C32_PageClosedOnExit ==
    dpc = "returned" => ~dtrace.page_open

\* ===================================================== submission claims

\* C38: results[i] of scrape_creators_batch is the outcome of scraping
\* creators[i], for every i, in whatever order the tasks finished and
\* whichever of them failed or raised.
C38_ResultsInInputOrder ==
    jpc \in {"returned", "counted", "loop", "done"} =>
        /\ Len(jresults) = NumCreators
        /\ \A i \in Units :
              jresults[i] = IF jobs[i].key = "missing"
                               THEN Res(FALSE, "none")
                               ELSE ScrapeCreator(jobs[i])

\* the batch has returned; the last task finished first, the first
\* candidate raised and the last one was scraped
C38_Witness ==
    /\ jpc = "returned"
    /\ jorder[1] = NumCreators
    /\ jobs[1].key = "missing"
    /\ jresults[NumCreators].success
    /\ ~jresults[1].success

\* C36: the whole-list job gives every candidate the outcome of its own
\* job and the counts of scrape_creators_batch on the same list; every
\* candidate is processed and successful + failed = total = len(creators).
C36_SameOutcomeAndCounts ==
    jpc = "done" =>
        /\ Len(wresults) = NumCreators
        /\ \A i \in Units :
              jobs[i].key # "missing" =>
                  wresults[i].success = ScrapeCreatorProfile(jobs[i]).success
        /\ wcounts.total_creators = NumCreators
        /\ wcounts.successful + wcounts.failed = wcounts.total_creators
        /\ wcounts.total_creators = jcounts.total_creators
        /\ wcounts.successful = jcounts.successful
        /\ wcounts.failed = jcounts.failed

\* C40: in a cycle the scraping step is started for exactly the candidates
\* save_creators_to_csv found to be new.
C40_StartedAreTheNew ==
    cpc = "started" =>
        { cstarted[i] : i \in 1..Len(cstarted) }
            = { new_creators[i] : i \in 1..Len(new_creators) }

\* ===================================================== discovery by tag

\* C33: discover_by_hashtag emits no handle twice, and none that
\* discover_creators or an earlier tag emitted on the engine; every handle
\* it emits is in the shared seen set; a tag that raised is followed by the
\* remaining tags.
C33_HashtagHandlesOnce ==
    /\ [](/\ \A i, j \in 1..Len(hcreators) :
                i # j => hcreators[i].handle # hcreators[j].handle
          /\ HandlesOf(hcreators) \cap htrace.emitted_before = {}
          /\ HandlesOf(hcreators) \cap htrace.seen_at_start = {}
          /\ HandlesOf(hcreators) \subseteq discovered_creators
          /\ hpc = "returned" => htags = 0)
    /\ [][ (htrace'.tag_failed /\ ~htrace.tag_failed)
              => (hpc' = "tags" /\ htags' = htags - 1) ]_vars

\* the call has returned a candidate; before that a tag had raised, a later
\* tag was browsed, a handle the call had emitted came up again and
\* discover_creators had emitted a handle on the engine
C33_Witness ==
    /\ hpc = "returned"
    /\ htrace.tag_failed
    /\ htrace.after_failure
    /\ htrace.passed_over
    /\ Len(hcreators) >= 1
    /\ htrace.emitted_before # {}

\* C34: every candidate discover_by_hashtag returns satisfies the follower
\* bounds and the niche allow-list of the run.
C34_HashtagFilterRespected ==
    \A i \in 1..Len(hcreators) :
        PassesFilters(hcreators[i], args.niches, args.min_followers,
                      args.max_followers)

====
